---- MODULE Spec2Model ----
(***************************************************************************)
(* A state-machine model of the support bot (discord.js v14):              *)
(*   - the panel manager: ensurePinnedPanel, the ClientReady handler and   *)
(*     the MessageDelete handler, together with the support channel they   *)
(*     act on;                                                             *)
(*   - the contact-operator form handler (modal_talk_staff) with the       *)
(*     requester-confirmation delivery openUserDmOrFallbackThread;         *)
(*   - the two-way DM relay (MessageCreate handler).                       *)
(* Every `await` of the source is a step boundary: the code between two    *)
(* awaits runs as one atomic action, as it does on the single-threaded     *)
(* event loop.  A remote call is one action whose outcome (success or      *)
(* failure, and the error code of a failure) is an input of the action.    *)
(***************************************************************************)
EXTENDS Integers, Sequences, FiniteSets, TLC

(***************************************************************************)
(* Bounds of the model and constants of the program.                       *)
(***************************************************************************)
Guilds == {1, 2}

\* messages ever posted to one support channel that the model tracks one by one
MaxIds == 2
\* bursts of other members' messages per support channel
MaxChatter == 1
\* restarts of the bot process
MaxRestarts == 1
\* channel.messages.fetch({ limit: 50 })
HistoryLimit == 50
\* the least number of digits /UID:(\d{5,})/ takes for an id
UidMinDigits == 5

\* const COOLDOWN_MS = 3000;
CooldownMs == 3000
\* Date.now() when the process starts: any time later than COOLDOWN_MS after the epoch
StartTime == 10 * CooldownMs
\* steps of the clock, and interactions dispatched, in one run of the variant
\* with the cooldown
MaxAdvances == 2
MaxClicks == 2

\* interactions and direct messages dispatched to the bot in one run
MaxEvents == 3
\* events dispatched in one run in which the handlers overlap
MaxRace == 3
\* button activations dispatched in one run of the cooldown gate
MaxGateClicks == 3

\* process.exit(1)
ExitFailure == 1

NoId == 0
MsgIds == 1..MaxIds

\* the non-operator members, and the handler invocations that may be in flight
\* at the same time
Requesters == {1, 2}
NoUser == 0
Slots == {1, 2}

\* error codes of failed remote calls, as the handlers read them with
\* String(e?.code ?? 'UNKNOWN'); "50007" is "Cannot send messages to this user"
ErrorCodes == {"50007", "UNKNOWN"}
NoError == "none"

BoolSet == {TRUE, FALSE}

\* customId of the two buttons of the panel
Buttons == {"btn_report_problem", "btn_talk_staff"}

VARIABLES
    \* ---- the platform, as seen by the panel manager ----
    guildsCache,            \* client.guilds.cache: the guilds the bot is a member of
    chanKind,               \* what guild.channels.fetch(SUPPORT_CHANNEL_ID) finds in a guild
    canSend,                \* perms.has(SendMessages) of the bot in the support channel
    canManage,              \* perms.has(ManageMessages) of the bot in the support channel
    channel,                \* the messages of the support channel, per guild
    nextMsg,                \* next message id of the support channel, per guild
    chatter,                \* bursts of other members' messages so far, per guild
    deleteEvents,           \* MessageDelete notifications not yet delivered, per guild
    \* ---- the process ----
    ready,                  \* ClientReady has fired in this process
    restarts,               \* restarts of the process so far
    panelMessageIdByGuild,  \* Map guildId -> messageId (NoId: no entry)
    ens,                    \* the ensurePinnedPanel call in flight, per guild
    \* ---- history of the run (read by the properties only) ----
    h_last,                 \* the id the last completed ensure call recorded, per guild
    h_prev,                 \* the id the completed ensure call before that recorded
    h_delBetween,           \* the message the earlier call recorded was deleted before
                            \* the later one completed
    h_handled,              \* what the last completed MessageDelete recreation did
    h_pinFailed,            \* the messages whose last pin request failed, per guild
    h_call,                 \* what the last ensure call that returned a message saw
                            \* and did, per guild
    \* ---- the relay ----
    adminIsBot,             \* adminUser.bot of the account ADMIN_USER_ID names
    adminDm,                \* the bot's messages in the operator's DM channel, oldest
                            \* first: plain text, or an embed with its footer text
    lastAdminPromptMsgIdByUser, \* Map userId -> messageId, as a set of <<key, value>>
    hs,                     \* the handler invocations, per slot
    events,                 \* events dispatched so far
    \* ---- the variant with the button cooldown ----
    now,                    \* Date.now(), in ms
    advances,               \* steps of the clock so far
    lastInteractAt,         \* Map key -> timestamp, as a set of <<key, value>>
    cd,                     \* the handler invocations of this variant, per slot
    clicks,                 \* interactions dispatched to this variant so far
    h_acceptedAt,           \* history: per key, when an activation last reached the
                            \* modal-opening logic
    \* ---- the start of the process ----
    env,                    \* process.env: the four values the program reads
    proc                    \* how far the module code has run, and the exit status

panelVars == <<guildsCache, chanKind, canSend, canManage, channel, nextMsg, chatter,
               deleteEvents, ready, restarts, panelMessageIdByGuild, ens>>

panelHist == <<h_last, h_prev, h_delBetween, h_handled, h_pinFailed, h_call>>

relayVars == <<adminIsBot, adminDm, lastAdminPromptMsgIdByUser, hs, events>>

cooldownVars == <<now, advances, lastInteractAt, cd, clicks, h_acceptedAt>>

startVars == <<env, proc>>

vars == <<panelVars, panelHist, relayVars, cooldownVars, startVars>>

(***************************************************************************)
(* The start of the process: the module code runs from the top to          *)
(* client.login(DISCORD_TOKEN) in one turn of the event loop, unless it     *)
(* exits before.                                                           *)
(***************************************************************************)
EnvNames == {"DISCORD_TOKEN", "FORUM_CHANNEL_ID", "SUPPORT_CHANNEL_ID", "ADMIN_USER_ID"}

\* a variable of the environment is not set, is set to the empty string, or
\* is set to a text
EnvValues == {"undefined", "", "text"}

\* !value
Not(value) == value \in {"undefined", ""}

MissingEnv_TokenOnly(e) == Not(e["DISCORD_TOKEN"])

\* !DISCORD_TOKEN || !FORUM_CHANNEL_ID || !SUPPORT_CHANNEL_ID || !ADMIN_USER_ID
MissingEnv(e) ==
    \/ Not(e["DISCORD_TOKEN"])
    \/ Not(e["FORUM_CHANNEL_ID"])
    \/ Not(e["SUPPORT_CHANNEL_ID"])
    \/ Not(e["ADMIN_USER_ID"])

Loading == [pc |-> "load", status |-> 0]
LoggedIn == [pc |-> "loggedIn", status |-> 0]

\* the module is loaded: the check of the environment, and, when it passes,
\* the creation of the client and of the maps, the registration of the
\* handlers and the call of client.login
LoadModule ==
    /\ proc.pc = "load"
    /\ proc' = IF MissingEnv(env)
               THEN [pc |-> "exited", status |-> ExitFailure]
               ELSE [proc EXCEPT !.pc = "login"]
    /\ UNCHANGED env
    /\ UNCHANGED <<panelVars, panelHist, relayVars, cooldownVars>>

\* client.login(DISCORD_TOKEN) settles; nothing handles its rejection
Login(ok) ==
    /\ proc.pc = "login"
    /\ proc' = [proc EXCEPT !.pc = IF ok THEN "loggedIn" ELSE "loginFailed"]
    /\ UNCHANGED env
    /\ UNCHANGED <<panelVars, panelHist, relayVars, cooldownVars>>

(***************************************************************************)
(* The support channel.  A message records how many messages of the        *)
(* channel are newer than it: messages.fetch returns the HistoryLimit most *)
(* recent messages, newest first.                                          *)
(***************************************************************************)
PanelMessage(id) ==
    [id |-> id, author |-> "bot", report |-> TRUE, talk |-> TRUE,
     pinned |-> FALSE, newer |-> 0]

NoticeMessage(id) ==
    [id |-> id, author |-> "bot", report |-> FALSE, talk |-> FALSE,
     pinned |-> FALSE, newer |-> 0]

\* the channel after `m` is posted to it
Posted(ch, m) == {[x EXCEPT !.newer = @ + 1] : x \in ch} \cup {m}

\* the channel after `n` messages of other members are posted to it
Pushed(ch, n) == {[x EXCEPT !.newer = @ + n] : x \in ch}

\* the channel after message `id` is deleted from it
Removed(ch, id) ==
    LET d == CHOOSE x \in ch : x.id = id
    IN  {IF x.newer > d.newer THEN [x EXCEPT !.newer = @ - 1] ELSE x :
            x \in ch \ {d}}

Exists(g, id) == \E m \in channel[g] : m.id = id
MsgOf(g, id) == CHOOSE m \in channel[g] : m.id = id

\* channel.messages.fetch({ limit: 50 })
FetchedHistory_All(ch) == ch

FetchedHistory(ch) == {m \in ch : m.newer < HistoryLimit}

\* the predicate of messages.find(...)
IsPanel(m) == m.author = "bot" /\ m.report /\ m.talk

\* messages?.find(...): the first match, newest first; NoId when there is none
\* (or when the fetch failed: `ok` is FALSE and messages is null)
FindExisting(ch, ok) ==
    LET found == {m \in FetchedHistory(ch) : IsPanel(m)}
    IN  IF ok /\ found # {}
        THEN (CHOOSE m \in found : \A x \in found : m.newer <= x.newer).id
        ELSE NoId

\* if (!existing.pinned && perms.has(ManageMessages)) await existing.pin()
ShouldPinExisting(g, m) == ~m.pinned /\ canManage[g]

ShouldPinSent_Never(g) == FALSE

\* if (perms.has(ManageMessages)) await sent.pin()
ShouldPinSent(g) == canManage[g]

Idle ==
    [pc |-> "idle", caller |-> "none", msg |-> NoId, deleted |-> NoId, sent |-> 0,
     fetched |-> FALSE, window |-> {}]

NoHandled == [deleted |-> NoId, sent |-> 0, tracked |-> NoId]

NoCall ==
    [outcome |-> "none", fetched |-> FALSE, window |-> {}, sent |-> 0,
     returned |-> NoId, recorded |-> NoId]

\* the ids of the messages of the bot that carry both buttons, among the
\* HistoryLimit most recent messages of the channel
InWindow(ch) ==
    {m.id : m \in {x \in ch : x.author = "bot" /\ x.report /\ x.talk
                                 /\ x.newer < HistoryLimit}}

(***************************************************************************)
(* ensurePinnedPanel.  ens[g] is the call in flight for guild g:            *)
(*   pc      the await the call is suspended at,                           *)
(*   caller  "ready" (ClientReady) or "delete" (MessageDelete handler),    *)
(*   msg     `existing` or `sent`,                                         *)
(*   deleted the id of the deleted message (caller "delete"),              *)
(*   sent    how many messages the call has sent,                          *)
(*   fetched, window: whether the history fetch succeeded, and the panels  *)
(*           among the HistoryLimit most recent messages when it settled   *)
(*           (history).                                                    *)
(***************************************************************************)

\* panelMessageIdByGuild.set(guild.id, id); return: the call completes.  For the
\* MessageDelete handler the line `if (recreated?.id) panelMessageIdByGuild.set(...)`
\* runs in the same turn of the event loop (both are continuations of one settled
\* promise) and writes the same id again.
Recorded(g, id) ==
    /\ panelMessageIdByGuild' = [panelMessageIdByGuild EXCEPT ![g] = id]
    /\ h_prev' = [h_prev EXCEPT ![g] = h_last[g]]
    /\ h_last' = [h_last EXCEPT ![g] = id]
    /\ h_delBetween' = [h_delBetween EXCEPT ![g] = ~Exists(g, h_last[g])]

\* the call goes on to its next await: nothing is recorded yet
Abandoned ==
    UNCHANGED <<panelMessageIdByGuild, h_prev, h_last, h_delBetween, h_call>>

\* history: the call c of guild g returns message id, having sent n messages
Handled(g, c, id, n) ==
    /\ h_handled' = IF c.caller = "delete"
                    THEN [h_handled EXCEPT ![g] =
                             [deleted |-> c.deleted, sent |-> n, tracked |-> id]]
                    ELSE h_handled
    /\ h_call' = [h_call EXCEPT ![g] =
                     [outcome |-> "message", fetched |-> c.fetched,
                      window |-> c.window, sent |-> n,
                      returned |-> id, recorded |-> panelMessageIdByGuild'[g]]]

\* the call of guild g ends without a message: it returned null ("null") or it
\* threw, the error being that of getSupportChannel ("configError") or that of
\* the send ("sendError"), which the caller logs; nothing is recorded
Ended(g, how) ==
    /\ UNCHANGED <<panelMessageIdByGuild, h_prev, h_last, h_delBetween>>
    /\ h_call' = [h_call EXCEPT ![g] = [NoCall EXCEPT !.outcome = how]]

\* the guilds the loop of the ClientReady handler calls ensurePinnedPanel for:
\* for (const [, guild] of client.guilds.cache) ensurePinnedPanel(guild).catch(...)
Called_First(cache) == {g \in cache : \A k \in cache : g <= k}

Called(cache) == cache

\* client.once(Events.ClientReady): one ensurePinnedPanel call per cached guild,
\* none awaited; each runs up to its first await
ClientReady ==
    /\ proc.pc = "loggedIn"
    /\ ~ready
    /\ ready' = TRUE
    /\ ens' = [g \in Guilds |->
                 IF g \in Called(guildsCache)
                 THEN [Idle EXCEPT !.pc = "getChannel", !.caller = "ready"]
                 ELSE ens[g]]
    /\ UNCHANGED <<guildsCache, chanKind, canSend, canManage, channel, nextMsg, chatter,
                   deleteEvents, restarts, panelMessageIdByGuild>>
    /\ UNCHANGED panelHist
    /\ UNCHANGED <<relayVars, cooldownVars, startVars>>

\* if (!perms?.has(PermissionsBitField.Flags.SendMessages)) return null;
MaySend_Always(g) == TRUE

MaySend(g) == canSend[g]

\* const channel = await getSupportChannel(guild), which throws when the channel
\* is missing or is not a text channel; the permission check
GetSupportChannel(g) ==
    /\ ens[g].pc = "getChannel"
    /\ IF chanKind[g] # "text"
       THEN /\ ens' = [ens EXCEPT ![g] = Idle]
            /\ Ended(g, "configError")
       ELSE IF ~MaySend(g)
       THEN /\ ens' = [ens EXCEPT ![g] = Idle]
            /\ Ended(g, "null")
       ELSE /\ ens' = [ens EXCEPT ![g].pc = "fetch"]
            /\ Abandoned
    /\ UNCHANGED <<guildsCache, chanKind, canSend, canManage, channel, nextMsg, chatter,
                   deleteEvents, ready, restarts>>
    /\ UNCHANGED <<h_handled, h_pinFailed>>
    /\ UNCHANGED <<relayVars, cooldownVars, startVars>>

\* const messages = await channel.messages.fetch({ limit: 50 }).catch(() => null);
\* const existing = messages?.find(...); then up to the next await
FetchHistory(g, ok) ==
    /\ ens[g].pc = "fetch"
    /\ LET existing == FindExisting(channel[g], ok)
           c == [ens[g] EXCEPT !.fetched = ok, !.window = InWindow(channel[g])]
       IN  IF existing = NoId
           THEN \* channel.send(...) is issued
                /\ ens' = [ens EXCEPT ![g] = [c EXCEPT !.pc = "send"]]
                /\ Abandoned
                /\ UNCHANGED h_handled
           ELSE IF ShouldPinExisting(g, MsgOf(g, existing))
           THEN \* existing.pin() is issued
                /\ ens' = [ens EXCEPT ![g] = [c EXCEPT !.pc = "pinExisting",
                                                       !.msg = existing]]
                /\ Abandoned
                /\ UNCHANGED h_handled
           ELSE /\ ens' = [ens EXCEPT ![g] = Idle]
                /\ Recorded(g, existing)
                /\ Handled(g, c, existing, c.sent)
    /\ UNCHANGED <<guildsCache, chanKind, canSend, canManage, channel, nextMsg, chatter,
                   deleteEvents, ready, restarts, h_pinFailed>>
    /\ UNCHANGED <<relayVars, cooldownVars, startVars>>

\* await existing.pin().catch(() => {}) / await sent.pin().catch(() => {});
\* panelMessageIdByGuild.set(...); return.  The request fails when the message
\* is gone, and may fail for any other reason.
PinPanel(g, ok) ==
    /\ ens[g].pc \in {"pinExisting", "pinSent"}
    /\ ok => Exists(g, ens[g].msg)
    /\ channel' = [channel EXCEPT ![g] =
                     IF ok
                     THEN {IF m.id = ens[g].msg THEN [m EXCEPT !.pinned = TRUE] ELSE m :
                              m \in channel[g]}
                     ELSE @]
    /\ h_pinFailed' = [h_pinFailed EXCEPT ![g] =
                          IF ok THEN @ \ {ens[g].msg} ELSE @ \cup {ens[g].msg}]
    /\ ens' = [ens EXCEPT ![g] = Idle]
    /\ Recorded(g, ens[g].msg)
    /\ Handled(g, ens[g], ens[g].msg, ens[g].sent)
    /\ UNCHANGED <<guildsCache, chanKind, canSend, canManage, nextMsg, chatter,
                   deleteEvents, ready, restarts>>
    /\ UNCHANGED <<relayVars, cooldownVars, startVars>>

\* const sent = await channel.send({ embeds, components }); then up to the next
\* await.  A failed send throws out of ensurePinnedPanel; the send fails when
\* the bot has lost the permission to send in the meantime.
SendPanel(g, ok) ==
    /\ ens[g].pc = "send"
    /\ ok => (nextMsg[g] <= MaxIds /\ canSend[g])
    /\ IF ~ok
       THEN /\ ens' = [ens EXCEPT ![g] = Idle]
            /\ Ended(g, "sendError")
            /\ UNCHANGED <<channel, nextMsg, h_handled>>
       ELSE /\ channel' = [channel EXCEPT ![g] = Posted(@, PanelMessage(nextMsg[g]))]
            /\ nextMsg' = [nextMsg EXCEPT ![g] = @ + 1]
            /\ IF ShouldPinSent(g)
               THEN /\ ens' = [ens EXCEPT ![g].pc = "pinSent", ![g].msg = nextMsg[g],
                                          ![g].sent = @ + 1]
                    /\ Abandoned
                    /\ UNCHANGED h_handled
               ELSE /\ ens' = [ens EXCEPT ![g] = Idle]
                    /\ Recorded(g, nextMsg[g])
                    /\ Handled(g, ens[g], nextMsg[g], ens[g].sent + 1)
    /\ UNCHANGED <<guildsCache, chanKind, canSend, canManage, chatter,
                   deleteEvents, ready, restarts, h_pinFailed>>
    /\ UNCHANGED <<relayVars, cooldownVars, startVars>>

(***************************************************************************)
(* client.on(Events.MessageDelete): the notification of the deletion of     *)
(* message `id` of the support channel of guild g is delivered.            *)
(***************************************************************************)
TrackedDeleted_Any(g, id) == g \in guildsCache

TrackedDeleted(g, id) ==
    LET trackedId == panelMessageIdByGuild[g]
    IN  trackedId # NoId /\ id = trackedId /\ g \in guildsCache

OnMessageDelete(g, id) ==
    /\ id \in deleteEvents[g]
    /\ deleteEvents' = [deleteEvents EXCEPT ![g] = @ \ {id}]
    /\ IF TrackedDeleted(g, id)
       THEN /\ ens[g].pc = "idle"
            /\ ens' = [ens EXCEPT ![g] =
                         [Idle EXCEPT !.pc = "getChannel", !.caller = "delete",
                                      !.deleted = id]]
       ELSE UNCHANGED ens
    /\ UNCHANGED <<guildsCache, chanKind, canSend, canManage, channel, nextMsg, chatter,
                   ready, restarts, panelMessageIdByGuild>>
    /\ UNCHANGED panelHist
    /\ UNCHANGED <<relayVars, cooldownVars, startVars>>

(***************************************************************************)
(* The environment of the panel manager.                                   *)
(***************************************************************************)

\* somebody deletes a message of the support channel; the gateway will notify
\* the running bot
DeleteMessage(g, id) ==
    /\ g \in guildsCache
    /\ Exists(g, id)
    /\ channel' = [channel EXCEPT ![g] = Removed(@, id)]
    /\ deleteEvents' = [deleteEvents EXCEPT ![g] = @ \cup {id}]
    /\ UNCHANGED <<guildsCache, chanKind, canSend, canManage, nextMsg, chatter,
                   ready, restarts, panelMessageIdByGuild, ens>>
    /\ UNCHANGED panelHist
    /\ UNCHANGED <<relayVars, cooldownVars, startVars>>

\* an administrator of the guild takes the SendMessages permission in the
\* support channel from the bot
RevokeSend(g) ==
    /\ g \in guildsCache
    /\ canSend[g]
    /\ canSend' = [canSend EXCEPT ![g] = FALSE]
    /\ UNCHANGED <<guildsCache, chanKind, canManage, channel, nextMsg, chatter,
                   deleteEvents, ready, restarts, panelMessageIdByGuild, ens>>
    /\ UNCHANGED panelHist
    /\ UNCHANGED <<relayVars, cooldownVars, startVars>>

\* other members post n messages to the support channel
ChatterSizes == {HistoryLimit - 1, HistoryLimit}

Chatter(g, n) ==
    /\ g \in guildsCache
    /\ chatter[g] < MaxChatter
    /\ chatter' = [chatter EXCEPT ![g] = @ + 1]
    /\ channel' = [channel EXCEPT ![g] = Pushed(@, n)]
    /\ UNCHANGED <<guildsCache, chanKind, canSend, canManage, nextMsg,
                   deleteEvents, ready, restarts, panelMessageIdByGuild, ens>>
    /\ UNCHANGED panelHist
    /\ UNCHANGED <<relayVars, cooldownVars, startVars>>

\* the bot posts a plain notice to the support channel (support.send of the
\* contact-operator handler): a bot-authored message without components
PostNotice(g) ==
    /\ g \in guildsCache
    /\ ready
    /\ chanKind[g] = "text"
    /\ canSend[g]
    /\ nextMsg[g] <= MaxIds
    /\ channel' = [channel EXCEPT ![g] = Posted(@, NoticeMessage(nextMsg[g]))]
    /\ nextMsg' = [nextMsg EXCEPT ![g] = @ + 1]
    /\ UNCHANGED <<guildsCache, chanKind, canSend, canManage, chatter,
                   deleteEvents, ready, restarts, panelMessageIdByGuild, ens>>
    /\ UNCHANGED panelHist
    /\ UNCHANGED <<relayVars, cooldownVars, startVars>>

\* the process is restarted: the maps are empty again, the calls in flight and
\* the undelivered notifications are gone; the channel stays as it is
Restart ==
    /\ ready
    /\ restarts < MaxRestarts
    /\ restarts' = restarts + 1
    /\ ready' = FALSE
    /\ panelMessageIdByGuild' = [g \in Guilds |-> NoId]
    /\ ens' = [g \in Guilds |-> Idle]
    /\ deleteEvents' = [g \in Guilds |-> {}]
    /\ UNCHANGED <<guildsCache, chanKind, canSend, canManage, channel, nextMsg, chatter>>
    /\ UNCHANGED panelHist
    /\ UNCHANGED <<relayVars, cooldownVars, startVars>>

(***************************************************************************)
(* The relay.  hs[h] is the handler invocation in slot h:                   *)
(*   kind     "modal" (modal_talk_staff submit) or "dm" (MessageCreate),   *)
(*   user     interaction.user / msg.author,                               *)
(*   pc       the await the invocation is suspended at,                    *)
(*   deferred deferReply succeeded,                                        *)
(*   code     the error code the catch of the handler read,                *)
(*   adminMsg the id of the embed sent to the operator for this event,     *)
(*   e1 e2 e3 the error codes of the three delivery strategies,            *)
(*   tried    the delivery strategies attempted, in order,                 *)
(*   via      the strategy that delivered (0: none),                       *)
(*   mode     res.mode of openUserDmOrFallbackThread,                      *)
(*   thrown   the code of the error openUserDmOrFallbackThread threw,      *)
(*   threads  private threads created,                                     *)
(*   reply    the response shown to the requester,                         *)
(*   hadAnchor, anchorBefore, anchored: the anchor of the user as the      *)
(*            handler read it, and right before and right after the embed  *)
(*            was sent (history),                                          *)
(*   ref      msg.reference?.messageId of an operator message,             *)
(*   refFrom  the requester whose content the referenced message carries   *)
(*            (history),                                                   *)
(*   target   targetUserId as getUidFromEmbedFooter returned it,            *)
(*   resolved client.users.fetch(targetUserId) returned a user,            *)
(*   fwdTo    the users targetUser.send was called on, fwdCount the calls, *)
(*   fwdErr   the error code of a failed forward,                          *)
(*   diag     the diagnostic the handler sent to the operator's channel     *)
(*            ("lost" when that send failed),                              *)
(*   seenDm, seenMap: the operator's channel and the map when the handler  *)
(*            started (history),                                           *)
(*   resp     the responses that reached the interaction (showModal, reply  *)
(*            or editReply that succeeded), respFailed those that failed,  *)
(*   button   customId of a button activation,                             *)
(*   title, details: the trimmed fields of a report submission,            *)
(*   entity   what guild.channels.fetch(FORUM_CHANNEL_ID) found, threw and  *)
(*            failure: whether getForumChannel threw, and the message,      *)
(*   created  forum.threads.create succeeded,                              *)
(*   noticeTries, noticeSends: how often the handler set out to post a     *)
(*            notice to the support channel (called getSupportChannel for  *)
(*            it), and how often it called support.send (history),         *)
(*   born, overlaps: the number of the event the invocation handles, and   *)
(*            whether another invocation was in flight when it started     *)
(*            (history),                                                   *)
(*   afterLost the invocation that held the slot before handled a message  *)
(*            of the operator, and its cannot-DM notice failed (history),  *)
(*   addFailed the members ("user", "admin") thread.members.add failed     *)
(*            for, threadSends the calls of thread.send (history),         *)
(*   authorBot, inDm: msg.author.bot and msg.channel?.type === DM of the   *)
(*            message handled,                                             *)
(*   introSent the handler of a direct message has sent the line           *)
(*            `New message from ... (via DM).` (history).                  *)
(***************************************************************************)
FreeSlot ==
    [kind |-> "none", user |-> NoUser, pc |-> "free", deferred |-> FALSE,
     code |-> NoError, adminMsg |-> NoId, e1 |-> NoError, e2 |-> NoError,
     e3 |-> NoError, tried |-> <<>>, via |-> 0, mode |-> "none", thrown |-> NoError,
     threads |-> 0, reply |-> "none", hadAnchor |-> FALSE, noticed |-> FALSE,
     anchorBefore |-> {}, anchored |-> {},
     ref |-> NoId, refFrom |-> NoUser, target |-> <<>>, fwdTo |-> {},
     resolved |-> FALSE, fwdCount |-> 0, fwdErr |-> NoError, diag |-> "none",
     seenDm |-> 0, seenMap |-> {},
     resp |-> 0, respFailed |-> 0, button |-> "none", title |-> <<>>,
     details |-> <<>>, entity |-> "none", threw |-> FALSE, failure |-> "none",
     created |-> FALSE, noticeTries |-> 0, noticeSends |-> 0,
     born |-> 0, overlaps |-> FALSE,
     afterLost |-> FALSE, addFailed |-> {}, threadSends |-> 0,
     authorBot |-> FALSE, inDm |-> FALSE, introSent |-> FALSE]

\* Map.get / Map.set on a map kept as a set of <<key, value>>
MapGet(map, k) == {p[2] : p \in {q \in map : q[1] = k}}

MapSet_Append(map, k, v) == map \cup {<<k, v>>}

MapSet(map, k, v) == {p \in map : p[1] # k} \cup {<<k, v>>}

\* user.id as text: a string of decimal digits (the ids of the requesters share
\* their first digits, as snowflakes issued close in time do)
Digits == {"0", "1", "2", "3", "4", "5", "6", "7", "8", "9"}
IdText(u) == <<"1", "0", "0", "0", "0">> \o <<IF u = 1 THEN "1" ELSE "2">>

\* buildAdminInboxEmbed: .setFooter({ text: `UID:${user.id}` }); `from` is the
\* requester whose content the message carries (history)
FooterText(u) == <<"U", "I", "D", ":">> \o IdText(u)
BuildAdminInboxEmbed(u) == [kind |-> "embed", from |-> u, footer |-> FooterText(u)]
\* a message without embeds: msg.embeds?.[0] is undefined
PlainText == [kind |-> "text", from |-> NoUser, footer |-> <<>>]

\* the digits of `t` from position i on, as far as they go: (\d{k,}) is greedy
RECURSIVE DigitRun(_, _)
DigitRun(t, i) ==
    IF i <= Len(t) /\ t[i] \in Digits THEN <<t[i]>> \o DigitRun(t, i + 1) ELSE <<>>

\* footerText.match(/UID:(\d{5,})/)?.[1] || null, null being <<>>: the first
\* place of the text where "UID:" is followed by UidMinDigits digits or more
UidMatches(t) ==
    {i \in 1..Len(t) :
        /\ i + 3 <= Len(t)
        /\ SubSeq(t, i, i + 3) = <<"U", "I", "D", ":">>
        /\ Len(DigitRun(t, i + 4)) >= UidMinDigits}

GetUidFromEmbedFooter_Short(msg) ==
    LET t == msg.footer
        m == UidMatches(t)
    IN  IF m = {} THEN <<>>
        ELSE LET i == CHOOSE x \in m : \A y \in m : x <= y
             IN  SubSeq(t, i + 4, i + 3 + UidMinDigits)

GetUidFromEmbedFooter_Fallback(msg) ==
    LET t == msg.footer
        m == UidMatches(t)
    IN  IF m = {} THEN IdText(1)
        ELSE LET i == CHOOSE x \in m : \A y \in m : x <= y
             IN  DigitRun(t, i + 4)

\* the id of the footer, for a requester the map holds an anchor of
GetUidFromEmbedFooter_Anchored(msg) ==
    LET t == msg.footer
        m == UidMatches(t)
    IN  IF m = {} \/ MapGet(lastAdminPromptMsgIdByUser, msg.from) = {} THEN <<>>
        ELSE LET i == CHOOSE x \in m : \A y \in m : x <= y
             IN  DigitRun(t, i + 4)

GetUidFromEmbedFooter(msg) ==
    LET t == msg.footer
        m == UidMatches(t)
    IN  IF m = {} THEN <<>>
        ELSE LET i == CHOOSE x \in m : \A y \in m : x <= y
             IN  DigitRun(t, i + 4)

\* client.users.fetch(targetUserId): the users whose id is that text
UserById(text) == {u \in Requesters : IdText(u) = text}

\* if (adminUser.bot)
IsBotAccount_Never == FALSE

IsBotAccount == adminIsBot

RelayStep(h, r) ==
    /\ hs' = [hs EXCEPT ![h] = r]
    /\ UNCHANGED <<adminIsBot, adminDm, lastAdminPromptMsgIdByUser, events>>
    /\ UNCHANGED <<panelVars, panelHist, cooldownVars, startVars>>

\* the invocation in slot h is suspended at an await
InFlight(h) == hs[h].pc \notin {"free", "done"}

\* the record of the invocation the event loop starts in slot h for the next event
Fresh(h) ==
    [FreeSlot EXCEPT !.born = events + 1,
                     !.overlaps = \E k \in Slots \ {h} : InFlight(k),
                     !.afterLost = hs[h].kind = "op" /\ hs[h].fwdErr = "50007"
                                      /\ hs[h].code # NoError]

\* an error thrown inside the MessageCreate handler leaves the handler and the
\* process ends with it
RelayError_Escapes(r, code) == [r EXCEPT !.code = code, !.pc = "crashed"]

\* } catch (e) { console.error('DM Relay Error:', e); } of the MessageCreate
\* handler: the error is logged and the handler returns
RelayError(r, code) == [r EXCEPT !.code = code, !.pc = "done"]

\* no handler invocation is in flight
Quiet == \A h \in Slots : hs[h].pc \in {"free", "done"}

\* a new invocation takes the first slot that holds none in flight
Available(h) ==
    /\ hs[h].pc \in {"free", "done"}
    /\ \A k \in Slots : hs[k].pc \in {"free", "done"} => h <= k

\* catch (e) of the modal_talk_staff handler: the heads-up to the support
\* channel is issued
Catch(r, code) == [r EXCEPT !.code = code, !.pc = "cGetSupport"]

\* a modal_talk_staff submission of requester u is dispatched; the handler runs
\* up to `await interaction.deferReply(...)`
SubmitTalkStaff(h, u) ==
    /\ events < MaxEvents
    /\ Available(h)
    /\ events' = events + 1
    /\ hs' = [hs EXCEPT ![h] = [Fresh(h) EXCEPT !.kind = "modal", !.user = u,
                                                  !.pc = "defer"]]
    /\ UNCHANGED <<adminIsBot, adminDm, lastAdminPromptMsgIdByUser>>
    /\ UNCHANGED <<panelVars, panelHist, cooldownVars, startVars>>

\* await interaction.deferReply({ ephemeral: true }); a failure reaches the
\* outermost catch
DeferReply(h, ok) ==
    /\ hs[h].pc = "defer"
    /\ RelayStep(h, IF ok THEN [hs[h] EXCEPT !.deferred = TRUE, !.pc = "fetchAdmin"]
                          ELSE [hs[h] EXCEPT !.pc = "oReply"])

\* const adminUser = await client.users.fetch(ADMIN_ID, { force: true });
\* if (adminUser.bot) { await interaction.editReply(...); return; }
FetchAdmin(h, ok, code) ==
    /\ hs[h].pc = "fetchAdmin"
    /\ RelayStep(h, IF ~ok THEN Catch(hs[h], code)
                    ELSE IF IsBotAccount THEN [hs[h] EXCEPT !.pc = "replyBot"]
                    ELSE [hs[h] EXCEPT !.pc = "createAdminDm"])

ReplyBotAccount(h, ok, code) ==
    /\ hs[h].pc = "replyBot"
    /\ RelayStep(h, IF ok THEN [hs[h] EXCEPT !.pc = "done", !.resp = @ + 1,
                                             !.reply = "botAdmin"]
                          ELSE Catch([hs[h] EXCEPT !.respFailed = @ + 1], code))

\* const adminDm = await adminUser.createDM();
CreateAdminDm(h, ok, code) ==
    /\ hs[h].pc = "createAdminDm"
    /\ RelayStep(h, IF ok THEN [hs[h] EXCEPT !.pc = "sendIntro"]
                          ELSE Catch(hs[h], code))

\* await adminDm.send(`New message from ...`);
SendAdminIntro(h, ok, code) ==
    /\ hs[h].pc = "sendIntro"
    /\ IF ok
       THEN /\ adminDm' = Append(adminDm, PlainText)
            /\ hs' = [hs EXCEPT ![h].pc = "sendEmbed"]
       ELSE /\ hs' = [hs EXCEPT ![h] = Catch(@, code)]
            /\ UNCHANGED adminDm
    /\ UNCHANGED <<adminIsBot, lastAdminPromptMsgIdByUser, events>>
    /\ UNCHANGED <<panelVars, panelHist, cooldownVars, startVars>>

\* the map after the send of an envelope to the operator rejected: the
\* statement that sets the anchor is skipped
AnchorAfterFailedSend_Set(map, u, id) == MapSet(map, u, id)

AnchorAfterFailedSend(map, u, id) == map

\* const adminMsg = await adminDm.send({ embeds: [buildAdminInboxEmbed(...)] });
\* lastAdminPromptMsgIdByUser.set(interaction.user.id, adminMsg.id);
\* then openUserDmOrFallbackThread up to `await user.send(...)`
SendAdminEmbed(h, ok, code) ==
    /\ hs[h].pc = "sendEmbed"
    /\ IF ok
       THEN LET id == Len(adminDm) + 1
                map == MapSet(lastAdminPromptMsgIdByUser, hs[h].user, id)
            IN  /\ adminDm' = Append(adminDm, BuildAdminInboxEmbed(hs[h].user))
                /\ lastAdminPromptMsgIdByUser' = map
                /\ hs' = [hs EXCEPT ![h].adminMsg = id,
                                    ![h].anchorBefore =
                                        MapGet(lastAdminPromptMsgIdByUser, hs[h].user),
                                    ![h].anchored = MapGet(map, hs[h].user),
                                    ![h].tried = <<1>>,
                                    ![h].pc = "s1"]
       ELSE /\ hs' = [hs EXCEPT ![h] = Catch(@, code)]
            /\ lastAdminPromptMsgIdByUser' =
                   AnchorAfterFailedSend(lastAdminPromptMsgIdByUser, hs[h].user,
                                         Len(adminDm) + 1)
            /\ UNCHANGED adminDm
    /\ UNCHANGED <<adminIsBot, events>>
    /\ UNCHANGED <<panelVars, panelHist, cooldownVars, startVars>>

(***************************************************************************)
(* openUserDmOrFallbackThread                                              *)
(***************************************************************************)

\* strategy 1 succeeded: return { mode: 'dm', thread: null }; the caller issues
\* the final editReply
DirectSendOk_FallThrough(r) ==
    [r EXCEPT !.mode = "dm", !.via = 1, !.tried = Append(@, 2), !.pc = "s2a"]

DirectSendOk(r) == [r EXCEPT !.mode = "dm", !.via = 1, !.pc = "replyDelivered"]

\* catch (e1): strategy 2 starts with `await user.createDM()`
DirectSendFailed(r, code) ==
    [r EXCEPT !.e1 = code, !.tried = Append(@, 2), !.pc = "s2a"]

\* catch (e2): strategy 3 starts with `await guild.channels.fetch(...)`
ChannelSendFailed_GiveUp(r, code) ==
    [r EXCEPT !.e2 = code, !.thrown = code, !.pc = "nGetSupport"]

ChannelSendFailed(r, code) ==
    [r EXCEPT !.e2 = code, !.tried = Append(@, 3), !.pc = "s3fetch"]

\* throw e2; // bubble original DM error
Rethrown_Last(r, code) == code

Rethrown(r, code) == r.e2

\* catch (e3) { throw e2 }, caught by catch (eDM) of the caller, which issues
\* `await getSupportChannel(interaction.guild)`
FallbackFailed_NoNotice(r, code) ==
    [r EXCEPT !.e3 = code, !.thrown = Rethrown(r, code), !.pc = "replyDelivered"]

FallbackFailed(r, code) ==
    [r EXCEPT !.e3 = code, !.thrown = Rethrown(r, code), !.pc = "nGetSupport"]

\* 1) await user.send({ embeds: [confirmEmbed] });
UserSend(h, ok, code) ==
    /\ hs[h].pc = "s1"
    /\ RelayStep(h, IF ok THEN DirectSendOk(hs[h]) ELSE DirectSendFailed(hs[h], code))

\* 2) const udm = await user.createDM();
UserCreateDm(h, ok, code) ==
    /\ hs[h].pc = "s2a"
    /\ RelayStep(h, IF ok THEN [hs[h] EXCEPT !.pc = "s2b"]
                          ELSE ChannelSendFailed(hs[h], code))

\* await udm.send({ embeds: [confirmEmbed] }); return { mode: 'dm', thread: null };
UserDmSend(h, ok, code) ==
    /\ hs[h].pc = "s2b"
    /\ RelayStep(h, IF ok
                    THEN [hs[h] EXCEPT !.mode = "dm", !.via = 2, !.pc = "replyDelivered"]
                    ELSE ChannelSendFailed(hs[h], code))

\* 3) const support = await guild.channels.fetch(supportChannelId);
\* if (!support || support.type !== GuildText) throw new Error(...): no code
FetchSupportForThread(h, found, code) ==
    /\ hs[h].pc = "s3fetch"
    /\ RelayStep(h, CASE found = "text" -> [hs[h] EXCEPT !.pc = "s3create"]
                      [] found = "wrong" -> FallbackFailed(hs[h], "UNKNOWN")
                      [] OTHER -> FallbackFailed(hs[h], code))

\* const thread = await support.threads.create({ ... PrivateThread ... });
CreateThread(h, ok, code) ==
    /\ hs[h].pc = "s3create"
    /\ RelayStep(h, IF ok THEN [hs[h] EXCEPT !.threads = @ + 1, !.pc = "s3addUser"]
                          ELSE FallbackFailed(hs[h], code))

\* catch (eAddUser) { console.warn(...) } / catch (eAddAdmin) { console.warn(...) }:
\* the handler goes on to the statement after the try, `next`
MemberAddFailed_Aborts(r, next) == FallbackFailed(r, "UNKNOWN")

MemberAddFailed(r, next) == [r EXCEPT !.pc = next]

\* try { await thread.members.add(user.id); } catch {}
\* try { if (adminUser) await thread.members.add(adminUser.id); } catch {}
AddThreadMember(h, ok) ==
    /\ hs[h].pc \in {"s3addUser", "s3addAdmin"}
    /\ LET who == IF hs[h].pc = "s3addUser" THEN "user" ELSE "admin"
           next == IF hs[h].pc = "s3addUser" THEN "s3addAdmin" ELSE "s3send"
       IN  RelayStep(h, IF ok THEN [hs[h] EXCEPT !.pc = next]
                        ELSE MemberAddFailed(
                                 [hs[h] EXCEPT !.addFailed = @ \cup {who}], next))

\* await thread.send({ content, embeds }); return { mode: 'thread', thread };
ThreadSend(h, ok, code) ==
    /\ hs[h].pc = "s3send"
    /\ LET r == [hs[h] EXCEPT !.threadSends = @ + 1]
       IN  RelayStep(h, IF ok
                        THEN [r EXCEPT !.mode = "thread", !.via = 3,
                                       !.pc = "replyDelivered"]
                        ELSE FallbackFailed(r, code))

(***************************************************************************)
(* modal_talk_staff, after the delivery                                    *)
(***************************************************************************)

\* catch (eDM): const support = await getSupportChannel(interaction.guild);
NoticeGetSupport(h, ok) ==
    /\ hs[h].pc = "nGetSupport"
    /\ RelayStep(h, [hs[h] EXCEPT !.noticeTries = @ + 1,
                                  !.pc = IF ok THEN "nSend" ELSE "replyDelivered"])

\* await support.send({ content: `Couldn't DM ... Message they sent: ${text}` });
\* every failure in this try is swallowed
NoticeSend(h, ok) ==
    /\ hs[h].pc = "nSend"
    /\ RelayStep(h, [hs[h] EXCEPT !.noticeSends = @ + 1, !.noticed = ok,
                                  !.pc = "replyDelivered"])

\* let deliveredWhere = 'dm'; ... deliveredWhere = res.mode;
DeliveredWhere(r) == IF r.mode = "none" THEN "dm" ELSE r.mode

\* await interaction.editReply({ content: deliveredWhere === 'dm' ? ... : ... });
ReplyDelivered(h, ok, code) ==
    /\ hs[h].pc = "replyDelivered"
    /\ RelayStep(h, IF ok
                    THEN [hs[h] EXCEPT !.pc = "done", !.resp = @ + 1,
                                       !.reply = IF DeliveredWhere(hs[h]) = "dm"
                                                 THEN "sentDm" ELSE "sentThread"]
                    ELSE Catch([hs[h] EXCEPT !.respFailed = @ + 1], code))

\* catch (e): const support = await getSupportChannel(interaction.guild);
CatchGetSupport(h, ok) ==
    /\ hs[h].pc = "cGetSupport"
    /\ RelayStep(h, [hs[h] EXCEPT !.noticeTries = @ + 1,
                                  !.pc = IF ok THEN "cSend" ELSE "cUserSend"])

\* await support.send({ content: `Heads up <@ADMIN_ID> ...` }), swallowed
CatchNotice(h, ok) ==
    /\ hs[h].pc = "cSend"
    /\ RelayStep(h, [hs[h] EXCEPT !.noticeSends = @ + 1, !.noticed = @ \/ ok,
                                  !.pc = "cUserSend"])

\* try { await interaction.user.send('I couldn't deliver ...'); } catch {}
CatchUserSend(h, ok) ==
    /\ hs[h].pc = "cUserSend"
    /\ RelayStep(h, [hs[h] EXCEPT !.pc = "cReply"])

\* await interaction.editReply({ content: String(code) === '50007' ? ... : ... });
\* a failure reaches the outermost catch
CatchReply_Silent(h, ok) ==
    /\ hs[h].pc = "cReply"
    /\ RelayStep(h, [hs[h] EXCEPT !.pc = "done"])

CatchReply(h, ok) ==
    /\ hs[h].pc = "cReply"
    /\ RelayStep(h, IF ok
                    THEN [hs[h] EXCEPT !.pc = "done", !.resp = @ + 1,
                                       !.reply = IF hs[h].code = "50007"
                                                 THEN "failed50007" ELSE "failedCode"]
                    ELSE [hs[h] EXCEPT !.respFailed = @ + 1, !.pc = "oReply"])

\* outermost catch: try { await interaction.reply(...) }; reply() rejects on an
\* interaction that was deferred
OuterReply(h, ok) ==
    /\ hs[h].pc = "oReply"
    /\ ok => ~hs[h].deferred
    /\ RelayStep(h, IF ok THEN [hs[h] EXCEPT !.pc = "done", !.resp = @ + 1,
                                             !.reply = "error"]
                          ELSE [hs[h] EXCEPT !.respFailed = @ + 1, !.pc = "oEdit"])

\* catch { try { await interaction.editReply(...) } catch {} }; editReply()
\* rejects on an interaction that was never deferred
OuterEdit(h, ok) ==
    /\ hs[h].pc = "oEdit"
    /\ ok => hs[h].deferred
    /\ RelayStep(h, IF ok THEN [hs[h] EXCEPT !.pc = "done", !.resp = @ + 1,
                                             !.reply = "error"]
                          ELSE [hs[h] EXCEPT !.respFailed = @ + 1, !.pc = "done"])

(***************************************************************************)
(* client.on(Events.InteractionCreate): the buttons and the report form.    *)
(***************************************************************************)
\* a button activation is dispatched; the handler builds the modal and runs up
\* to `await interaction.showModal(...)`
ClickPanelButton(h, u, b) ==
    /\ events < MaxEvents
    /\ Available(h)
    /\ events' = events + 1
    /\ hs' = [hs EXCEPT ![h] = [Fresh(h) EXCEPT !.kind = "button", !.user = u,
                                                  !.button = b, !.pc = "showModal"]]
    /\ UNCHANGED <<adminIsBot, adminDm, lastAdminPromptMsgIdByUser>>
    /\ UNCHANGED <<panelVars, panelHist, cooldownVars, startVars>>

\* await interaction.showModal(...); return;  a failure reaches the outermost
\* catch
ShowPanelModal(h, ok) ==
    /\ hs[h].pc = "showModal"
    /\ RelayStep(h, IF ok THEN [hs[h] EXCEPT !.pc = "done", !.resp = @ + 1,
                                             !.reply = "modal"]
                          ELSE [hs[h] EXCEPT !.respFailed = @ + 1, !.pc = "oReply"])

\* the text a member can submit in a required field (the form refuses an empty
\* one): blanks only, or something else with blanks around it
Blank == " "
Texts == {<<Blank>>, <<Blank, "a", Blank>>}

\* String.prototype.trim
RECURSIVE TrimStart(_)
TrimStart(t) == IF t # <<>> /\ Head(t) = Blank THEN TrimStart(Tail(t)) ELSE t

RECURSIVE TrimEnd(_)
TrimEnd(t) ==
    IF t # <<>> /\ t[Len(t)] = Blank THEN TrimEnd(SubSeq(t, 1, Len(t) - 1)) ELSE t

Trim(t) == TrimEnd(TrimStart(t))

\* a modal_report_problem submission with the fields rp_title and rp_details is
\* dispatched; the handler runs up to `await interaction.deferReply(...)`
SubmitReport(h, u, rp_title, rp_details) ==
    /\ events < MaxEvents
    /\ Available(h)
    /\ events' = events + 1
    /\ hs' = [hs EXCEPT ![h] = [Fresh(h) EXCEPT !.kind = "report", !.user = u,
                                                  !.title = rp_title,
                                                  !.details = rp_details,
                                                  !.pc = "rDefer"]]
    /\ UNCHANGED <<adminIsBot, adminDm, lastAdminPromptMsgIdByUser>>
    /\ UNCHANGED <<panelVars, panelHist, cooldownVars, startVars>>

\* await interaction.deferReply({ ephemeral: true });
\* const title = ....trim(); const details = ....trim();
\* (no check of the trimmed fields follows), then getForumChannel up to
\* `await guild.channels.fetch(FORUM_CHANNEL_ID)`
ReportDeferReply(h, ok) ==
    /\ hs[h].pc = "rDefer"
    /\ LET title == Trim(hs[h].title)
           details == Trim(hs[h].details)
           r == [hs[h] EXCEPT !.title = title, !.details = details]
       IN  RelayStep(h, IF ok THEN [r EXCEPT !.deferred = TRUE, !.pc = "rForum"]
                              ELSE [hs[h] EXCEPT !.pc = "oReply"])

\* getForumChannel / getSupportChannel after the fetch, `found` being the type
\* of the channel fetched ("missing": the fetch failed and .catch gave null):
\* if (!ch || ch.type !== wanted) throw new Error('... is not a ... or not found.')
ResolveChannel_Typed(found, wanted) ==
    [threw |-> FALSE,
     failure |-> IF found = wanted THEN "none"
                 ELSE IF found = "missing" THEN "not found" ELSE "wrong type"]

ResolveChannel(found, wanted) ==
    IF found = wanted
    THEN [threw |-> FALSE, failure |-> "none"]
    ELSE [threw |-> TRUE, failure |-> "is not a " \o wanted \o " channel or not found"]

\* const forum = await getForumChannel(interaction.guild); an error thrown
\* reaches the outermost catch
ReportGetForumChannel(h, found) ==
    /\ hs[h].pc = "rForum"
    /\ LET res == ResolveChannel(found, "forum")
           r == [hs[h] EXCEPT !.entity = found, !.threw = res.threw,
                              !.failure = res.failure]
       IN  RelayStep(h, IF res.threw
                        THEN [r EXCEPT !.pc = "oReply"]
                        ELSE [r EXCEPT !.pc = "rCreate"])

\* forum.threads.create rejected: the error reaches the outermost catch, and
\* the editReply of the confirmation is skipped
ThreadCreateFailed_Confirmed(r) == [r EXCEPT !.pc = "rReply"]

ThreadCreateFailed(r) == [r EXCEPT !.pc = "oReply"]

\* const thread = await forum.threads.create({ name: `${title} — by ${tag}`, ... });
ReportCreateThread(h, ok) ==
    /\ hs[h].pc = "rCreate"
    /\ RelayStep(h, IF ok THEN [hs[h] EXCEPT !.created = TRUE, !.pc = "rReply"]
                          ELSE ThreadCreateFailed(hs[h]))

\* await interaction.editReply({ content: `Your report has been posted: ...` });
ReportEditReply(h, ok) ==
    /\ hs[h].pc = "rReply"
    /\ RelayStep(h, IF ok THEN [hs[h] EXCEPT !.pc = "done", !.resp = @ + 1,
                                             !.reply = "posted"]
                          ELSE [hs[h] EXCEPT !.respFailed = @ + 1, !.pc = "oReply"])

(***************************************************************************)
(* client.on(Events.MessageCreate), 2) USER -> ADMIN: a direct message of   *)
(* requester u (not a bot, not the operator) is dispatched; the handler    *)
(* runs up to `await client.users.fetch(ADMIN_ID, ...)`.                   *)
(***************************************************************************)
UserDirectMessage(h, u) ==
    /\ events < MaxEvents
    /\ Available(h)
    /\ events' = events + 1
    /\ hs' = [hs EXCEPT ![h] = [Fresh(h) EXCEPT !.kind = "dm", !.user = u,
                                                  !.inDm = TRUE,
                                                  !.pc = "dFetchAdmin"]]
    /\ UNCHANGED <<adminIsBot, adminDm, lastAdminPromptMsgIdByUser>>
    /\ UNCHANGED <<panelVars, panelHist, cooldownVars, startVars>>

\* const adminUser = await client.users.fetch(...).catch(() => null);
\* if (!adminUser) return;
DmFetchAdmin(h, ok) ==
    /\ hs[h].pc = "dFetchAdmin"
    /\ RelayStep(h, [hs[h] EXCEPT !.pc = IF ok THEN "dCreateDm" ELSE "done"])

\* const dm = await adminUser.createDM();
\* const anchorMsgId = lastAdminPromptMsgIdByUser.get(msg.author.id);
\* if (!anchorMsgId) { await dm.send(intro) ... } else { await dm.send(embed) }
DmCreateDm(h, ok, code) ==
    /\ hs[h].pc = "dCreateDm"
    /\ LET anchorMsgId == MapGet(lastAdminPromptMsgIdByUser, hs[h].user)
       IN  RelayStep(h, IF ~ok THEN RelayError(hs[h], code)
                        ELSE IF anchorMsgId = {}
                        THEN [hs[h] EXCEPT !.pc = "dIntro"]
                        ELSE [hs[h] EXCEPT !.hadAnchor = TRUE, !.pc = "dFollow"])

\* await dm.send(`New message from ... (via DM).`);
DmSendIntro(h, ok, code) ==
    /\ hs[h].pc = "dIntro"
    /\ IF ok
       THEN /\ adminDm' = Append(adminDm, PlainText)
            /\ hs' = [hs EXCEPT ![h].introSent = TRUE, ![h].pc = "dAnchor"]
       ELSE /\ hs' = [hs EXCEPT ![h] = RelayError(@, code)]
            /\ UNCHANGED adminDm
    /\ UNCHANGED <<adminIsBot, lastAdminPromptMsgIdByUser, events>>
    /\ UNCHANGED <<panelVars, panelHist, cooldownVars, startVars>>

\* the map after the embed of a direct message was sent with no anchor read:
\* lastAdminPromptMsgIdByUser.set(msg.author.id, anchor.id)
AnchorAfterFirst_Kept(map, u, id) == map

AnchorAfterFirst(map, u, id) == MapSet(map, u, id)

\* the map after the embed of a direct message was sent with an anchor read:
\* the else branch does not touch the map
AnchorAfterFollowUp_Set(map, u, id) == MapSet(map, u, id)

AnchorAfterFollowUp(map, u, id) == map

\* const anchor = await dm.send({ embeds: [...] });  (no anchor was read)
\* await dm.send({ embeds: [...] });                 (an anchor was read)
DmSendEmbed(h, ok, code) ==
    /\ hs[h].pc \in {"dAnchor", "dFollow"}
    /\ IF ok
       THEN LET id == Len(adminDm) + 1
                u == hs[h].user
                map == IF hs[h].pc = "dAnchor"
                       THEN AnchorAfterFirst(lastAdminPromptMsgIdByUser, u, id)
                       ELSE AnchorAfterFollowUp(lastAdminPromptMsgIdByUser, u, id)
            IN  /\ adminDm' = Append(adminDm, BuildAdminInboxEmbed(u))
                /\ lastAdminPromptMsgIdByUser' = map
                /\ hs' = [hs EXCEPT ![h].adminMsg = id,
                                    ![h].anchorBefore =
                                        MapGet(lastAdminPromptMsgIdByUser, u),
                                    ![h].anchored = MapGet(map, u),
                                    ![h].pc = "done"]
       ELSE /\ hs' = [hs EXCEPT ![h] = RelayError(@, code)]
            /\ lastAdminPromptMsgIdByUser' =
                   AnchorAfterFailedSend(lastAdminPromptMsgIdByUser, hs[h].user,
                                         Len(adminDm) + 1)
            /\ UNCHANGED adminDm
    /\ UNCHANGED <<adminIsBot, events>>
    /\ UNCHANGED <<panelVars, panelHist, cooldownVars, startVars>>

(***************************************************************************)
(* client.on(Events.MessageCreate), 1) ADMIN -> USER: a direct message of   *)
(* the operator is dispatched, `ref` being the message it replies to, if    *)
(* any: a message of the bot in that channel (1..Len(adminDm)) or another   *)
(* one (Len(adminDm) + 1: a message of the operator, or one that is gone).  *)
(* The handler runs up to `await msg.channel.messages.fetch(refId)`.        *)
(***************************************************************************)
\* const refId = msg.reference?.messageId; if (!refId) return;
HasReference_Any(ref) == TRUE

HasReference(ref) == ref # NoId

OperatorDirectMessage(h, ref) ==
    /\ events < MaxEvents
    /\ Available(h)
    /\ ref \in 0..(Len(adminDm) + 1)
    /\ events' = events + 1
    /\ LET r == [Fresh(h) EXCEPT !.kind = "op", !.ref = ref,
                                 !.inDm = TRUE, !.authorBot = adminIsBot,
                                 !.seenDm = Len(adminDm),
                                 !.seenMap = lastAdminPromptMsgIdByUser]
       IN  hs' = [hs EXCEPT ![h] =
                    \* if (msg.author.bot) return;  if (!refId) return;
                    IF adminIsBot \/ ~HasReference(ref) THEN [r EXCEPT !.pc = "done"]
                    ELSE [r EXCEPT !.pc = "opFetchRef"]]
    /\ UNCHANGED <<adminIsBot, adminDm, lastAdminPromptMsgIdByUser>>
    /\ UNCHANGED <<panelVars, panelHist, cooldownVars, startVars>>

\* the message a reply reference names
Referenced(ref) == IF ref \in 1..Len(adminDm) THEN adminDm[ref] ELSE PlainText

\* try { referenced = await msg.channel.messages.fetch(refId); } catch {}
\* if (!referenced) return;
\* const targetUserId = getUidFromEmbedFooter(referenced);
\* if (!targetUserId) return;
OpFetchReferenced(h, ok) ==
    /\ hs[h].pc = "opFetchRef"
    /\ LET referenced == Referenced(hs[h].ref)
           targetUserId == GetUidFromEmbedFooter(referenced)
       IN  RelayStep(h, IF ~ok THEN [hs[h] EXCEPT !.pc = "done"]
                        ELSE IF targetUserId = <<>>
                        THEN [hs[h] EXCEPT !.refFrom = referenced.from, !.pc = "done"]
                        ELSE [hs[h] EXCEPT !.refFrom = referenced.from,
                                           !.target = targetUserId,
                                           !.pc = "opFetchUser"])

\* try { targetUser = await client.users.fetch(targetUserId, ...); } catch {}
\* if (!targetUser) { await msg.channel.send(`Could not find user ...`); return; }
OpFetchTargetUser(h, ok) ==
    /\ hs[h].pc = "opFetchUser"
    /\ RelayStep(h, IF ok /\ UserById(hs[h].target) # {}
                    THEN [hs[h] EXCEPT !.resolved = TRUE, !.pc = "opForward"]
                    ELSE [hs[h] EXCEPT !.pc = "opNotFound"])

\* await msg.channel.send(`Could not find user ID ...`); a failure reaches the
\* catch of the handler, which logs it
OpSendNotFound(h, ok) ==
    /\ hs[h].pc = "opNotFound"
    /\ adminDm' = IF ok THEN Append(adminDm, PlainText) ELSE adminDm
    /\ hs' = [hs EXCEPT ![h] = IF ok THEN [@ EXCEPT !.diag = "notFound", !.pc = "done"]
                               ELSE RelayError([@ EXCEPT !.diag = "lost"], "UNKNOWN")]
    /\ UNCHANGED <<adminIsBot, lastAdminPromptMsgIdByUser, events>>
    /\ UNCHANGED <<panelVars, panelHist, cooldownVars, startVars>>

\* catch (e1): if (code === '50007') await msg.channel.send(`I can't DM ...`);
NeedsDiagnostic(code) == code = "50007"

\* try { await targetUser.send({ content: ..., embeds: [replyEmbed] }); }
\* catch (e1) { ... }
OpForward(h, ok, code) ==
    /\ hs[h].pc = "opForward"
    /\ LET r == [hs[h] EXCEPT !.fwdTo = @ \cup UserById(hs[h].target),
                              !.fwdCount = @ + 1]
       IN RelayStep(h, IF ok THEN [r EXCEPT !.pc = "done"]
                       ELSE IF NeedsDiagnostic(code)
                       THEN [r EXCEPT !.fwdErr = code, !.pc = "opDiag"]
                       ELSE [r EXCEPT !.fwdErr = code, !.pc = "done"])

\* await msg.channel.send(`I can't DM <@id> (DMs disabled or blocked). ...`);
OpSendDiagnostic(h, ok) ==
    /\ hs[h].pc = "opDiag"
    /\ adminDm' = IF ok THEN Append(adminDm, PlainText) ELSE adminDm
    /\ hs' = [hs EXCEPT ![h] = IF ok THEN [@ EXCEPT !.diag = "unreachable", !.pc = "done"]
                               ELSE RelayError([@ EXCEPT !.diag = "lost"], "UNKNOWN")]
    /\ UNCHANGED <<adminIsBot, lastAdminPromptMsgIdByUser, events>>
    /\ UNCHANGED <<panelVars, panelHist, cooldownVars, startVars>>

(***************************************************************************)
(* client.on(Events.MessageCreate): the messages that are neither a direct  *)
(* message of a requester nor one of the operator.  The author is a         *)
(* requester, another bot account, or the bot itself (BotSelf): every       *)
(* message the bot sends, an envelope or a notice to the operator or a      *)
(* forwarded reply to a requester, comes back to the handler as a message   *)
(* of a DM channel whose author is the bot.                                 *)
(***************************************************************************)
BotSelf == 3

\* the branch of the handler a message takes:
\* if (msg.author.bot) return;
\* if (isDm && msg.author.id === ADMIN_ID) { ... return; }
\* if (isDm && msg.author.id !== ADMIN_ID) { ... }
RelayBranch_AnyAuthor(bot, isDm, isAdmin) ==
    IF isDm /\ isAdmin THEN "op" ELSE IF isDm THEN "dm" ELSE "none"

RelayBranch(bot, isDm, isAdmin) ==
    IF bot THEN "none"
    ELSE IF isDm /\ isAdmin THEN "op" ELSE IF isDm THEN "dm" ELSE "none"

\* a message of author a (never the operator) is dispatched, written by a bot
\* account or in a channel that is not a DM channel; the handler runs up to
\* its first await, if it reaches one
OtherMessageCreate(h, a, bot, isDm) ==
    /\ events < MaxEvents
    /\ Available(h)
    /\ bot \/ ~isDm
    /\ a = BotSelf => bot
    \* a DM channel holds the messages of the bot and of one user
    /\ (bot /\ isDm) => (a = BotSelf /\ adminDm # <<>>)
    /\ events' = events + 1
    /\ LET r == [Fresh(h) EXCEPT !.kind = "msg", !.user = a, !.authorBot = bot,
                                 !.inDm = isDm, !.seenDm = Len(adminDm),
                                 !.seenMap = lastAdminPromptMsgIdByUser]
       IN  hs' = [hs EXCEPT ![h] =
                    IF RelayBranch(bot, isDm, FALSE) = "dm"
                    THEN [r EXCEPT !.pc = "dFetchAdmin"]
                    ELSE [r EXCEPT !.pc = "done"]]
    /\ UNCHANGED <<adminIsBot, adminDm, lastAdminPromptMsgIdByUser>>
    /\ UNCHANGED <<panelVars, panelHist, cooldownVars, startVars>>

\* the process is restarted between two events: const lastAdminPromptMsgIdByUser
\* = new Map() runs again; the operator's channel keeps its messages
RestartRelay ==
    /\ Quiet
    /\ restarts < MaxRestarts
    /\ restarts' = restarts + 1
    /\ lastAdminPromptMsgIdByUser' = {}
    /\ UNCHANGED <<adminIsBot, adminDm, hs, events>>
    /\ UNCHANGED <<guildsCache, chanKind, canSend, canManage, channel, nextMsg, chatter,
                   deleteEvents, ready, panelMessageIdByGuild, ens>>
    /\ UNCHANGED <<panelHist, cooldownVars, startVars>>

(***************************************************************************)
(* The variant with the button cooldown (and no relay).  cd[h] is the       *)
(* handler invocation in slot h:                                           *)
(*   kind     "button" or "talk" (modal_talk_staff submit),                *)
(*   key      cooldownKey, user interaction.user, at Date.now() on entry,   *)
(*   onCooldown what isOnCooldown(cooldownKey) returned,                    *)
(*   modal    the handler reached the modal-opening logic,                 *)
(*   deferred deferReply succeeded, sentOK / failure as the handler has    *)
(*            them, resp the responses that reached the interaction,       *)
(*   reply    the last response,                                           *)
(*   since    history: ms since an activation with this key last reached   *)
(*            the modal-opening logic (-1: none did).                      *)
(***************************************************************************)
CdFree ==
    [kind |-> "none", pc |-> "free", key |-> <<>>, user |-> NoUser, at |-> 0,
     onCooldown |-> FALSE, modal |-> FALSE, deferred |-> FALSE, sentOK |-> TRUE,
     failure |-> "none", resp |-> 0, reply |-> "none", since |-> -1]

\* `${interaction.guildId}:${interaction.user.id}:${interaction.customId}`
CooldownKey_NoControl(g, u, b) == <<g, u, "any">>

CooldownKey(g, u, b) == <<g, u, b>>

\* lastInteractAt.get(key) ?? 0
LastInteract(map, key) ==
    IF MapGet(map, key) = {} THEN 0 ELSE CHOOSE t \in MapGet(map, key) : TRUE

\* isOnCooldown(key): the value returned, and the map it leaves
IsOnCooldown_Never(map, key, t) == FALSE

IsOnCooldown(map, key, t) == t - LastInteract(map, key) < CooldownMs

Stamped_Always(map, key, t) == MapSet(map, key, t)

Stamped(map, key, t) == IF IsOnCooldown(map, key, t) THEN map ELSE MapSet(map, key, t)

CdStep(h, r) ==
    /\ cd' = [cd EXCEPT ![h] = r]
    /\ UNCHANGED <<now, advances, lastInteractAt, clicks, h_acceptedAt>>
    /\ UNCHANGED <<panelVars, panelHist, relayVars, startVars>>

\* no handler invocation of this variant is in flight
CdQuiet == \A h \in Slots : cd[h].pc \in {"free", "done"}

CdAvailable(h) ==
    /\ cd[h].pc \in {"free", "done"}
    /\ \A k \in Slots : cd[k].pc \in {"free", "done"} => h <= k

\* time passes
AdvanceClock(d) ==
    /\ advances < MaxAdvances
    /\ advances' = advances + 1
    /\ now' = now + d
    /\ UNCHANGED <<lastInteractAt, cd, clicks, h_acceptedAt>>
    /\ UNCHANGED <<panelVars, panelHist, relayVars, startVars>>

\* a button activation is dispatched; the handler runs isOnCooldown and then up
\* to `await interaction.reply(...)` or `await interaction.showModal(...)`
ClickButton(h, g, u, b) ==
    /\ CdAvailable(h)
    /\ clicks' = clicks + 1
    /\ LET key == CooldownKey(g, u, b)
           on == IsOnCooldown(lastInteractAt, key, now)
           \* history: kept per guild, user and control, whatever the key is
           prev == MapGet(h_acceptedAt, <<g, u, b>>)
       IN  /\ lastInteractAt' = Stamped(lastInteractAt, key, now)
           /\ h_acceptedAt' = IF on THEN h_acceptedAt
                              ELSE MapSet(h_acceptedAt, <<g, u, b>>, now)
           /\ cd' = [cd EXCEPT ![h] =
                       [CdFree EXCEPT !.kind = "button", !.key = key, !.user = u,
                                      !.at = now, !.onCooldown = on, !.modal = ~on,
                                      !.since = IF prev = {} THEN -1
                                                ELSE now - (CHOOSE t \in prev : TRUE),
                                      !.pc = IF on THEN "cdReply" ELSE "showModal"]]
    /\ UNCHANGED <<now, advances>>
    /\ UNCHANGED <<panelVars, panelHist, relayVars, startVars>>

\* try { await interaction.reply({ content: 'Please wait a moment ...' }); }
\* catch {/* ignore */}  return;
CooldownReply(h, ok) ==
    /\ cd[h].pc = "cdReply"
    /\ CdStep(h, IF ok THEN [cd[h] EXCEPT !.resp = @ + 1, !.reply = "cooldown",
                                          !.pc = "done"]
                       ELSE [cd[h] EXCEPT !.pc = "done"])

\* await interaction.showModal(...); return;  a failure reaches the outermost
\* catch
ShowModal(h, ok) ==
    /\ cd[h].pc = "showModal"
    /\ CdStep(h, IF ok THEN [cd[h] EXCEPT !.resp = @ + 1, !.reply = "modal",
                                          !.pc = "done"]
                       ELSE [cd[h] EXCEPT !.pc = "cdOuterReply"])

\* outermost catch: try { await interaction.reply(...) }; reply() rejects on an
\* interaction that was deferred
CdOuterReply(h, ok) ==
    /\ cd[h].pc = "cdOuterReply"
    /\ ok => ~cd[h].deferred
    /\ CdStep(h, IF ok THEN [cd[h] EXCEPT !.resp = @ + 1, !.reply = "error",
                                          !.pc = "done"]
                       ELSE [cd[h] EXCEPT !.pc = "cdOuterEdit"])

\* catch { try { await interaction.editReply(...) } catch {} }; editReply()
\* rejects on an interaction that was never deferred
CdOuterEdit(h, ok) ==
    /\ cd[h].pc = "cdOuterEdit"
    /\ ok => cd[h].deferred
    /\ CdStep(h, IF ok THEN [cd[h] EXCEPT !.resp = @ + 1, !.reply = "error",
                                          !.pc = "done"]
                       ELSE [cd[h] EXCEPT !.pc = "done"])

\* the embed of the modal_talk_staff handler of this variant: fields From,
\* Server, Message, a timestamp and a colour, and no footer
BuildDmEmbed(u) == [kind |-> "embed", from |-> u, footer |-> <<>>]

\* the handler sends text and embed to the operator; cd changes with it
CdSent(h, m, r) ==
    /\ adminDm' = Append(adminDm, m)
    /\ cd' = [cd EXCEPT ![h] = r]
    /\ UNCHANGED <<adminIsBot, lastAdminPromptMsgIdByUser, hs, events>>
    /\ UNCHANGED <<now, advances, lastInteractAt, clicks, h_acceptedAt>>
    /\ UNCHANGED <<panelVars, panelHist, startVars>>

\* catch (e) { sentOK = false; failureMsg = ... } and on to editReply
CdFailed(r, code, isBot) ==
    [r EXCEPT !.sentOK = FALSE,
              !.failure = IF code = "50007" THEN "failed50007"
                          ELSE IF isBot THEN "botAdmin" ELSE "failedCode",
              !.pc = "cdEditReply"]

\* a modal_talk_staff submission is dispatched; the handler runs up to
\* `await interaction.deferReply(...)`
CdSubmitTalkStaff(h, u) ==
    /\ clicks < MaxClicks
    /\ CdAvailable(h)
    /\ clicks' = clicks + 1
    /\ cd' = [cd EXCEPT ![h] = [CdFree EXCEPT !.kind = "talk", !.user = u,
                                                !.at = now, !.pc = "cdDefer"]]
    /\ UNCHANGED <<now, advances, lastInteractAt, h_acceptedAt>>
    /\ UNCHANGED <<panelVars, panelHist, relayVars, startVars>>

CdDeferReply(h, ok) ==
    /\ cd[h].pc = "cdDefer"
    /\ CdStep(h, IF ok THEN [cd[h] EXCEPT !.deferred = TRUE, !.pc = "cdFetchAdmin"]
                       ELSE [cd[h] EXCEPT !.pc = "cdOuterReply"])

\* const adminUser = await client.users.fetch(ADMIN_USER_ID, { force: true });
\* if (adminUser.bot) throw new Error('ADMIN_USER_ID points to a bot account. ...');
CdFetchAdmin(h, ok, code) ==
    /\ cd[h].pc = "cdFetchAdmin"
    /\ CdStep(h, IF ~ok THEN CdFailed(cd[h], code, FALSE)
                 ELSE IF adminIsBot THEN CdFailed(cd[h], "UNKNOWN", TRUE)
                 ELSE [cd[h] EXCEPT !.pc = "cdCreateDm"])

\* const dm = await adminUser.createDM();
CdCreateDm(h, ok, code) ==
    /\ cd[h].pc = "cdCreateDm"
    /\ CdStep(h, IF ok THEN [cd[h] EXCEPT !.pc = "cdSendText"]
                       ELSE CdFailed(cd[h], code, FALSE))

\* await dm.send(`You have a new message from ...`);
CdSendText(h, ok, code) ==
    /\ cd[h].pc = "cdSendText"
    /\ IF ok THEN CdSent(h, PlainText, [cd[h] EXCEPT !.pc = "cdSendEmbed"])
             ELSE CdStep(h, CdFailed(cd[h], code, FALSE))

\* await dm.send({ embeds: [dmEmbed] });
CdSendEmbed(h, ok, code) ==
    /\ cd[h].pc = "cdSendEmbed"
    /\ IF ok THEN CdSent(h, BuildDmEmbed(cd[h].user), [cd[h] EXCEPT !.pc = "cdEditReply"])
             ELSE CdStep(h, CdFailed(cd[h], code, FALSE))

\* try { await interaction.editReply({ content: replyMsg }); }
CdEditReply(h, ok) ==
    /\ cd[h].pc = "cdEditReply"
    /\ CdStep(h, IF ok
                 THEN [cd[h] EXCEPT !.resp = @ + 1, !.pc = "done",
                                    !.reply = IF cd[h].sentOK THEN "sent"
                                              ELSE cd[h].failure]
                 ELSE [cd[h] EXCEPT !.pc = "cdFollowUp"])

\* catch { try { await interaction.followUp({ content: replyMsg, ... }); } catch {} }
CdFollowUp(h, ok) ==
    /\ cd[h].pc = "cdFollowUp"
    /\ CdStep(h, IF ok
                 THEN [cd[h] EXCEPT !.resp = @ + 1, !.pc = "done",
                                    !.reply = IF cd[h].sentOK THEN "sent"
                                              ELSE cd[h].failure]
                 ELSE [cd[h] EXCEPT !.pc = "done"])

(***************************************************************************)
(* Initial states and the specifications.                                  *)
(***************************************************************************)
InitRelayState ==
    /\ adminDm = <<>>
    /\ lastAdminPromptMsgIdByUser = {}
    /\ hs = [h \in Slots |-> FreeSlot]
    /\ events = 0

\* the process has passed the check of the environment and is logged in
InitStarted ==
    /\ env = [n \in EnvNames |-> "text"]
    /\ proc = LoggedIn

InitCooldownState ==
    /\ now = StartTime
    /\ advances = 0
    /\ lastInteractAt = {}
    /\ cd = [h \in Slots |-> CdFree]
    /\ clicks = 0
    /\ h_acceptedAt = {}

InitPanelState ==
    /\ chanKind \in [Guilds -> {"text", "forum", "missing"}]
    /\ canSend \in [Guilds -> BoolSet]
    /\ canManage \in [Guilds -> BoolSet]
    /\ \A g \in Guilds \ guildsCache :
          chanKind[g] = "missing" /\ ~canSend[g] /\ ~canManage[g]
    /\ channel = [g \in Guilds |-> {}]
    /\ nextMsg = [g \in Guilds |-> 1]
    /\ chatter = [g \in Guilds |-> 0]
    /\ deleteEvents = [g \in Guilds |-> {}]
    /\ ready = FALSE
    /\ restarts = 0
    /\ panelMessageIdByGuild = [g \in Guilds |-> NoId]
    /\ ens = [g \in Guilds |-> Idle]
    /\ h_last = [g \in Guilds |-> NoId]
    /\ h_prev = [g \in Guilds |-> NoId]
    /\ h_delBetween = [g \in Guilds |-> FALSE]
    /\ h_handled = [g \in Guilds |-> NoHandled]
    /\ h_pinFailed = [g \in Guilds |-> {}]
    /\ h_call = [g \in Guilds |-> NoCall]

\* the bot is a member of one guild
InitPanel ==
    /\ guildsCache = {1}
    /\ InitPanelState
    /\ adminIsBot = FALSE
    /\ InitRelayState
    /\ InitCooldownState
    /\ InitStarted

NextPanel ==
    \/ ClientReady
    \/ \E g \in Guilds : GetSupportChannel(g)
    \/ \E g \in Guilds, ok \in BoolSet : FetchHistory(g, ok)
    \/ \E g \in Guilds, ok \in BoolSet : PinPanel(g, ok)
    \/ \E g \in Guilds, ok \in BoolSet : SendPanel(g, ok)
    \/ \E g \in Guilds, id \in MsgIds : OnMessageDelete(g, id)
    \/ \E g \in Guilds, id \in MsgIds : DeleteMessage(g, id)
    \/ \E g \in Guilds, n \in ChatterSizes : Chatter(g, n)
    \/ \E g \in Guilds : PostNotice(g)
    \/ Restart

SpecPanel == InitPanel /\ [][NextPanel]_vars

\* the start of the panel manager in two guilds, each with a support channel
\* and permissions of its own; the send of a panel succeeds where the bot may
\* send, the history fetch and the pin succeed or fail
InitGuilds ==
    /\ guildsCache = Guilds
    /\ InitPanelState
    /\ adminIsBot = FALSE
    /\ InitRelayState
    /\ InitCooldownState
    /\ InitStarted

NextGuilds ==
    \/ ClientReady
    \/ \E g \in Guilds : GetSupportChannel(g)
    \/ \E g \in Guilds, ok \in BoolSet : FetchHistory(g, ok)
    \/ \E g \in Guilds, ok \in BoolSet : PinPanel(g, ok)
    \/ \E g \in Guilds : SendPanel(g, TRUE)

SpecGuilds == InitGuilds /\ [][NextGuilds]_vars

\* the panel manager in a guild where the bot may lose the permission to send
\* to the support channel at any time
NextRevoke ==
    \/ ClientReady
    \/ \E g \in Guilds : GetSupportChannel(g)
    \/ \E g \in Guilds, ok \in BoolSet : FetchHistory(g, ok)
    \/ \E g \in Guilds, ok \in BoolSet : PinPanel(g, ok)
    \/ \E g \in Guilds, ok \in BoolSet : SendPanel(g, ok)
    \/ \E g \in Guilds, id \in MsgIds : OnMessageDelete(g, id)
    \/ \E g \in Guilds, id \in MsgIds : DeleteMessage(g, id)
    \/ \E g \in Guilds : RevokeSend(g)

SpecRevoke == InitPanel /\ [][NextRevoke]_vars

\* the panel manager with fair scheduling, in two guilds whose support channel
\* is a text channel the bot may send to: every settled promise is resumed and
\* every notification is delivered.  The history fetch and the pin succeed or
\* fail, the send of a panel succeeds; messages are deleted while the channel
\* can still take a new one.
InitFair ==
    /\ guildsCache = Guilds
    /\ InitPanelState
    /\ chanKind = [g \in Guilds |-> "text"]
    /\ canSend = [g \in Guilds |-> TRUE]
    /\ adminIsBot = FALSE
    /\ InitRelayState
    /\ InitCooldownState
    /\ InitStarted

DeleteWhileRoom(g, id) == nextMsg[g] <= MaxIds /\ DeleteMessage(g, id)

NextFair ==
    \/ ClientReady
    \/ \E g \in Guilds : GetSupportChannel(g)
    \/ \E g \in Guilds, ok \in BoolSet : FetchHistory(g, ok)
    \/ \E g \in Guilds, ok \in BoolSet : PinPanel(g, ok)
    \/ \E g \in Guilds : SendPanel(g, TRUE)
    \/ \E g \in Guilds, id \in MsgIds : OnMessageDelete(g, id)
    \/ \E g \in Guilds, id \in MsgIds : DeleteWhileRoom(g, id)

Fairness ==
    /\ WF_vars(ClientReady)
    /\ \A g \in Guilds :
          /\ WF_vars(GetSupportChannel(g))
          /\ WF_vars(\E ok \in BoolSet : FetchHistory(g, ok))
          /\ WF_vars(\E ok \in BoolSet : PinPanel(g, ok))
          /\ WF_vars(SendPanel(g, TRUE))
          /\ WF_vars(\E id \in MsgIds : OnMessageDelete(g, id))

SpecFair == InitFair /\ [][NextFair]_vars /\ Fairness

\* the process from its start, in a guild the bot is a member of
InitStartup ==
    /\ guildsCache = {1}
    /\ InitPanelState
    /\ adminIsBot = FALSE
    /\ InitRelayState
    /\ InitCooldownState
    /\ env \in [EnvNames -> EnvValues]
    /\ proc = Loading

NextStartup ==
    \/ LoadModule
    \/ \E ok \in BoolSet : Login(ok)
    \/ NextPanel

SpecStartup == InitStartup /\ [][NextStartup]_vars

\* the relay, with the panel manager not started; the events are dispatched
\* one after the other, each when the handler of the one before has finished
InitRelay ==
    /\ guildsCache = {}
    /\ InitPanelState
    /\ adminIsBot \in BoolSet
    /\ InitRelayState
    /\ InitCooldownState
    /\ InitStarted

NextRelay ==
    \/ \E h \in Slots, u \in Requesters : Quiet /\ SubmitTalkStaff(h, u)
    \/ \E h \in Slots, ok \in BoolSet : DeferReply(h, ok)
    \/ \E h \in Slots, ok \in BoolSet, code \in ErrorCodes : FetchAdmin(h, ok, code)
    \/ \E h \in Slots, ok \in BoolSet, code \in ErrorCodes : ReplyBotAccount(h, ok, code)
    \/ \E h \in Slots, ok \in BoolSet, code \in ErrorCodes : CreateAdminDm(h, ok, code)
    \/ \E h \in Slots, ok \in BoolSet, code \in ErrorCodes : SendAdminIntro(h, ok, code)
    \/ \E h \in Slots, ok \in BoolSet, code \in ErrorCodes : SendAdminEmbed(h, ok, code)
    \/ \E h \in Slots, ok \in BoolSet, code \in ErrorCodes : UserSend(h, ok, code)
    \/ \E h \in Slots, ok \in BoolSet, code \in ErrorCodes : UserCreateDm(h, ok, code)
    \/ \E h \in Slots, ok \in BoolSet, code \in ErrorCodes : UserDmSend(h, ok, code)
    \/ \E h \in Slots, found \in {"text", "wrong", "fail"}, code \in ErrorCodes :
          FetchSupportForThread(h, found, code)
    \/ \E h \in Slots, ok \in BoolSet, code \in ErrorCodes : CreateThread(h, ok, code)
    \* (a thread.members.add that fails is followed by the same statements as
    \* one that succeeds: SpecThread has both)
    \/ \E h \in Slots : AddThreadMember(h, TRUE)
    \/ \E h \in Slots, ok \in BoolSet, code \in ErrorCodes : ThreadSend(h, ok, code)
    \/ \E h \in Slots, ok \in BoolSet : NoticeGetSupport(h, ok)
    \/ \E h \in Slots, ok \in BoolSet : NoticeSend(h, ok)
    \/ \E h \in Slots, ok \in BoolSet, code \in ErrorCodes : ReplyDelivered(h, ok, code)
    \/ \E h \in Slots, ok \in BoolSet : CatchGetSupport(h, ok)
    \/ \E h \in Slots, ok \in BoolSet : CatchNotice(h, ok)
    \/ \E h \in Slots, ok \in BoolSet : CatchUserSend(h, ok)
    \/ \E h \in Slots, ok \in BoolSet : CatchReply(h, ok)
    \/ \E h \in Slots, ok \in BoolSet : OuterReply(h, ok)
    \/ \E h \in Slots, ok \in BoolSet : OuterEdit(h, ok)
    \/ \E h \in Slots, u \in Requesters, b \in Buttons :
          Quiet /\ ClickPanelButton(h, u, b)
    \/ \E h \in Slots, ok \in BoolSet : ShowPanelModal(h, ok)
    \/ \E h \in Slots, u \in Requesters, t \in Texts, d \in Texts :
          Quiet /\ SubmitReport(h, u, t, d)
    \/ \E h \in Slots, ok \in BoolSet : ReportDeferReply(h, ok)
    \/ \E h \in Slots, found \in {"forum", "text", "missing"} :
          ReportGetForumChannel(h, found)
    \/ \E h \in Slots, ok \in BoolSet : ReportCreateThread(h, ok)
    \/ \E h \in Slots, ok \in BoolSet : ReportEditReply(h, ok)
    \/ \E h \in Slots, u \in Requesters : Quiet /\ UserDirectMessage(h, u)
    \/ \E h \in Slots, ok \in BoolSet : DmFetchAdmin(h, ok)
    \/ \E h \in Slots, ok \in BoolSet, code \in ErrorCodes : DmCreateDm(h, ok, code)
    \/ \E h \in Slots, ok \in BoolSet, code \in ErrorCodes : DmSendIntro(h, ok, code)
    \/ \E h \in Slots, ok \in BoolSet, code \in ErrorCodes : DmSendEmbed(h, ok, code)
    \/ \E h \in Slots, ref \in 0..(2 * MaxEvents + 1) :
          Quiet /\ OperatorDirectMessage(h, ref)
    \/ \E h \in Slots, ok \in BoolSet : OpFetchReferenced(h, ok)
    \/ \E h \in Slots, ok \in BoolSet : OpFetchTargetUser(h, ok)
    \/ \E h \in Slots, ok \in BoolSet : OpSendNotFound(h, ok)
    \/ \E h \in Slots, ok \in BoolSet, code \in ErrorCodes : OpForward(h, ok, code)
    \/ \E h \in Slots, ok \in BoolSet : OpSendDiagnostic(h, ok)

SpecRelay == InitRelay /\ [][NextRelay]_vars

\* the relay with overlapping handlers: a contact form or a direct message of a
\* requester is dispatched whenever the event loop is free to, also while the
\* handler of an earlier event is suspended at an await.  The sends to the
\* operator's channel succeed or fail; every other remote call succeeds.
InitRace ==
    /\ guildsCache = {}
    /\ InitPanelState
    /\ adminIsBot = FALSE
    /\ InitRelayState
    /\ InitCooldownState
    /\ InitStarted

NextRace ==
    \/ \E h \in Slots, u \in Requesters : events < MaxRace /\ SubmitTalkStaff(h, u)
    \/ \E h \in Slots, u \in Requesters : events < MaxRace /\ UserDirectMessage(h, u)
    \/ \E h \in Slots : DeferReply(h, TRUE)
    \/ \E h \in Slots : FetchAdmin(h, TRUE, NoError)
    \/ \E h \in Slots : CreateAdminDm(h, TRUE, NoError)
    \/ \E h \in Slots, ok \in BoolSet : SendAdminIntro(h, ok, "UNKNOWN")
    \/ \E h \in Slots, ok \in BoolSet : SendAdminEmbed(h, ok, "UNKNOWN")
    \/ \E h \in Slots : UserSend(h, TRUE, NoError)
    \/ \E h \in Slots : ReplyDelivered(h, TRUE, NoError)
    \/ \E h \in Slots : CatchGetSupport(h, TRUE)
    \/ \E h \in Slots : CatchNotice(h, TRUE)
    \/ \E h \in Slots : CatchUserSend(h, TRUE)
    \/ \E h \in Slots : CatchReply(h, TRUE)
    \/ \E h \in Slots : DmFetchAdmin(h, TRUE)
    \/ \E h \in Slots : DmCreateDm(h, TRUE, NoError)
    \/ \E h \in Slots, ok \in BoolSet : DmSendIntro(h, ok, "UNKNOWN")
    \/ \E h \in Slots, ok \in BoolSet : DmSendEmbed(h, ok, "UNKNOWN")

SpecRace == InitRace /\ [][NextRace]_vars

\* the relay across restarts of the process: the events are dispatched one
\* after the other; the remote calls of the handlers that send envelopes to the
\* operator succeed, those of the handler of the operator's messages succeed
\* or fail
NextReroute ==
    \/ \E h \in Slots, u \in Requesters : Quiet /\ SubmitTalkStaff(h, u)
    \/ \E h \in Slots : DeferReply(h, TRUE)
    \/ \E h \in Slots : FetchAdmin(h, TRUE, NoError)
    \/ \E h \in Slots : CreateAdminDm(h, TRUE, NoError)
    \/ \E h \in Slots : SendAdminIntro(h, TRUE, NoError)
    \/ \E h \in Slots : SendAdminEmbed(h, TRUE, NoError)
    \/ \E h \in Slots : UserSend(h, TRUE, NoError)
    \/ \E h \in Slots : ReplyDelivered(h, TRUE, NoError)
    \/ \E h \in Slots, u \in Requesters : Quiet /\ UserDirectMessage(h, u)
    \/ \E h \in Slots : DmFetchAdmin(h, TRUE)
    \/ \E h \in Slots : DmCreateDm(h, TRUE, NoError)
    \/ \E h \in Slots : DmSendIntro(h, TRUE, NoError)
    \/ \E h \in Slots : DmSendEmbed(h, TRUE, NoError)
    \/ \E h \in Slots, ref \in 0..(2 * MaxEvents + 1) :
          Quiet /\ OperatorDirectMessage(h, ref)
    \/ \E h \in Slots, ok \in BoolSet : OpFetchReferenced(h, ok)
    \/ \E h \in Slots, ok \in BoolSet : OpFetchTargetUser(h, ok)
    \/ \E h \in Slots, ok \in BoolSet : OpSendNotFound(h, ok)
    \/ \E h \in Slots, ok \in BoolSet, code \in ErrorCodes : OpForward(h, ok, code)
    \/ \E h \in Slots, ok \in BoolSet : OpSendDiagnostic(h, ok)
    \/ RestartRelay

SpecReroute == InitRace /\ [][NextReroute]_vars

\* the contact form with every outcome of the confirmation to the requester:
\* the forms are dispatched one after the other, the envelope reaches the
\* operator, and each remote call of openUserDmOrFallbackThread and of the
\* statements after it succeeds or fails
NextThread ==
    \/ \E h \in Slots, u \in Requesters : Quiet /\ SubmitTalkStaff(h, u)
    \/ \E h \in Slots : DeferReply(h, TRUE)
    \/ \E h \in Slots : FetchAdmin(h, TRUE, NoError)
    \/ \E h \in Slots : CreateAdminDm(h, TRUE, NoError)
    \/ \E h \in Slots : SendAdminIntro(h, TRUE, NoError)
    \/ \E h \in Slots : SendAdminEmbed(h, TRUE, NoError)
    \/ \E h \in Slots, ok \in BoolSet, code \in ErrorCodes : UserSend(h, ok, code)
    \/ \E h \in Slots, ok \in BoolSet, code \in ErrorCodes : UserCreateDm(h, ok, code)
    \/ \E h \in Slots, ok \in BoolSet, code \in ErrorCodes : UserDmSend(h, ok, code)
    \/ \E h \in Slots, found \in {"text", "wrong", "fail"}, code \in ErrorCodes :
          FetchSupportForThread(h, found, code)
    \/ \E h \in Slots, ok \in BoolSet, code \in ErrorCodes : CreateThread(h, ok, code)
    \/ \E h \in Slots, ok \in BoolSet : AddThreadMember(h, ok)
    \/ \E h \in Slots, ok \in BoolSet, code \in ErrorCodes : ThreadSend(h, ok, code)
    \/ \E h \in Slots, ok \in BoolSet : NoticeGetSupport(h, ok)
    \/ \E h \in Slots, ok \in BoolSet : NoticeSend(h, ok)
    \/ \E h \in Slots, ok \in BoolSet, code \in ErrorCodes : ReplyDelivered(h, ok, code)
    \/ \E h \in Slots, ok \in BoolSet : CatchGetSupport(h, ok)
    \/ \E h \in Slots, ok \in BoolSet : CatchNotice(h, ok)
    \/ \E h \in Slots, ok \in BoolSet : CatchUserSend(h, ok)
    \/ \E h \in Slots, ok \in BoolSet : CatchReply(h, ok)
    \/ \E h \in Slots, ok \in BoolSet : OuterReply(h, ok)
    \/ \E h \in Slots, ok \in BoolSet : OuterEdit(h, ok)

SpecThread == InitRace /\ [][NextThread]_vars

\* the MessageCreate handler with every message it is handed: the direct
\* messages of the requesters and of the operator, the messages of guild
\* channels and the messages bots wrote, the bot's own among them.  The
\* messages are dispatched one after the other; every remote call succeeds or
\* fails.
NextEcho ==
    \/ \E h \in Slots, u \in Requesters : Quiet /\ UserDirectMessage(h, u)
    \/ \E h \in Slots, ok \in BoolSet : DmFetchAdmin(h, ok)
    \/ \E h \in Slots, ok \in BoolSet, code \in ErrorCodes : DmCreateDm(h, ok, code)
    \/ \E h \in Slots, ok \in BoolSet, code \in ErrorCodes : DmSendIntro(h, ok, code)
    \/ \E h \in Slots, ok \in BoolSet, code \in ErrorCodes : DmSendEmbed(h, ok, code)
    \/ \E h \in Slots, ref \in 0..(2 * MaxEvents + 1) :
          Quiet /\ OperatorDirectMessage(h, ref)
    \/ \E h \in Slots, ok \in BoolSet : OpFetchReferenced(h, ok)
    \/ \E h \in Slots, ok \in BoolSet : OpFetchTargetUser(h, ok)
    \/ \E h \in Slots, ok \in BoolSet : OpSendNotFound(h, ok)
    \/ \E h \in Slots, ok \in BoolSet, code \in ErrorCodes : OpForward(h, ok, code)
    \/ \E h \in Slots, ok \in BoolSet : OpSendDiagnostic(h, ok)
    \/ \E h \in Slots, a \in Requesters \cup {BotSelf}, bot \in BoolSet, isDm \in BoolSet :
          Quiet /\ OtherMessageCreate(h, a, bot, isDm)

SpecEcho == InitRace /\ [][NextEcho]_vars

\* the variant with the cooldown, with the panel manager not started; the
\* interactions are dispatched one after the other, and the clock is read
\* between them (no handler reads it after its first step)
InitCooldown ==
    /\ guildsCache = {}
    /\ InitPanelState
    /\ adminIsBot \in BoolSet
    /\ InitRelayState
    /\ InitCooldownState
    /\ InitStarted

ClockSteps == {1, CooldownMs - 1}

NextCooldown ==
    \/ \E d \in ClockSteps : CdQuiet /\ AdvanceClock(d)
    \/ \E h \in Slots, g \in Guilds, u \in Requesters, b \in Buttons :
          clicks < MaxClicks /\ CdQuiet /\ ClickButton(h, g, u, b)
    \/ \E h \in Slots, ok \in BoolSet : CooldownReply(h, ok)
    \/ \E h \in Slots, ok \in BoolSet : ShowModal(h, ok)
    \/ \E h \in Slots, ok \in BoolSet : CdOuterReply(h, ok)
    \/ \E h \in Slots, ok \in BoolSet : CdOuterEdit(h, ok)
    \/ \E h \in Slots, u \in Requesters : CdQuiet /\ CdSubmitTalkStaff(h, u)
    \/ \E h \in Slots, ok \in BoolSet : CdDeferReply(h, ok)
    \/ \E h \in Slots, ok \in BoolSet, code \in ErrorCodes : CdFetchAdmin(h, ok, code)
    \/ \E h \in Slots, ok \in BoolSet, code \in ErrorCodes : CdCreateDm(h, ok, code)
    \/ \E h \in Slots, ok \in BoolSet, code \in ErrorCodes : CdSendText(h, ok, code)
    \/ \E h \in Slots, ok \in BoolSet, code \in ErrorCodes : CdSendEmbed(h, ok, code)
    \/ \E h \in Slots, ok \in BoolSet : CdEditReply(h, ok)
    \/ \E h \in Slots, ok \in BoolSet : CdFollowUp(h, ok)

SpecCooldown == InitCooldown /\ [][NextCooldown]_vars

\* the cooldown gate alone: one member activates the buttons of one guild at
\* any time, also while the handler of an earlier activation is suspended at
\* its reply or at showModal, and the clock advances at any time; showModal
\* succeeds, the reply of a rejected activation succeeds or fails
NextGate ==
    \/ \E d \in ClockSteps : AdvanceClock(d)
    \/ \E h \in Slots, b \in Buttons :
          clicks < MaxGateClicks /\ ClickButton(h, 1, 1, b)
    \/ \E h \in Slots, ok \in BoolSet : CooldownReply(h, ok)
    \/ \E h \in Slots : ShowModal(h, TRUE)

SpecGate == InitRace /\ [][NextGate]_vars

(***************************************************************************)
(* The panel manager: properties.                                          *)
(***************************************************************************)
Panels(g) == {m \in channel[g] : IsPanel(m)}

\* the model keeps one ensure call per guild: a notification that starts a call
\* never arrives while another call of that guild is in flight
OneEnsurePerGuild ==
    \A g \in Guilds : \A id \in deleteEvents[g] :
        TrackedDeleted(g, id) => ens[g].pc = "idle"

\* C1: of two successive completed ensure calls of a guild, with the message the
\* first one recorded not deleted in between, the second records the same id
C1_EnsureIdempotent ==
    \A g \in Guilds :
        (h_prev[g] # NoId /\ h_last[g] # NoId /\ ~h_delBetween[g])
            => h_last[g] = h_prev[g]

\* C2: a MessageDelete recreation that completed sent exactly one new panel
\* message and left a tracked id different from the deleted one
C2_DeleteRecreatesOnce ==
    \A g \in Guilds :
        h_handled[g].deleted # NoId
            => /\ h_handled[g].sent = 1
               /\ h_handled[g].tracked # h_handled[g].deleted

\* C3: the support channel of a guild never holds more than one bot-authored
\* message carrying both controls
C3_AtMostOnePanel ==
    \A g \in Guilds : Cardinality(Panels(g)) <= 1

TrackedExists(g) ==
    /\ ens[g].pc = "idle"
    /\ panelMessageIdByGuild[g] # NoId
    /\ Exists(g, panelMessageIdByGuild[g])

\* C4 (as claimed): with no ensure call in flight, the tracked message, if it
\* still exists, carries both controls and is pinned whenever the bot may pin,
\* even when the pin request failed
C4_TrackedPinnedAlways ==
    \A g \in Guilds :
        TrackedExists(g)
            => LET m == MsgOf(g, panelMessageIdByGuild[g])
               IN  /\ m.report /\ m.talk
                   /\ canManage[g] => m.pinned

\* C4 (amended): with no ensure call in flight, the tracked message, if it still
\* exists, carries both controls, and it is pinned whenever the bot may pin
\* unless the last pin request for it failed
C4_TrackedPinnedUnlessPinFailed ==
    \A g \in Guilds :
        TrackedExists(g)
            => LET m == MsgOf(g, panelMessageIdByGuild[g])
               IN  /\ m.author = "bot" /\ m.report /\ m.talk
                   /\ (canManage[g] /\ m.id \notin h_pinFailed[g]) => m.pinned

\* C4 witness: a tracked panel that was pinned, and one whose pin request failed
C4_Witness ==
    \E g \in Guilds :
        /\ TrackedExists(g)
        /\ canManage[g]
        /\ MsgOf(g, panelMessageIdByGuild[g]).pinned
        /\ h_pinFailed[g] # {}

(***************************************************************************)
(* The delivery and the relay: properties.                                 *)
(***************************************************************************)
Modal(h) == hs[h].kind = "modal"
Dm(h) == hs[h].kind = "dm"
AllFailed(h) ==
    Modal(h) /\ hs[h].e1 # NoError /\ hs[h].e2 # NoError /\ hs[h].e3 # NoError

\* C5: the strategies of openUserDmOrFallbackThread run in the order 1, 2, 3;
\* strategy k+1 is attempted only after strategy k failed, and no strategy is
\* attempted after the one that succeeded
C5_StrategiesInOrder ==
    \A h \in Slots :
        Modal(h) =>
            /\ hs[h].tried \in {<<>>, <<1>>, <<1, 2>>, <<1, 2, 3>>}
            /\ Len(hs[h].tried) >= 2 => hs[h].e1 # NoError
            /\ Len(hs[h].tried) >= 3 => hs[h].e2 # NoError
            /\ hs[h].via # 0 => Len(hs[h].tried) = hs[h].via

\* C5 witness: the second strategy delivered after the first failed
C5_Witness ==
    \E h \in Slots :
        /\ Modal(h) /\ hs[h].pc = "done"
        /\ hs[h].e1 # NoError /\ hs[h].via = 2 /\ hs[h].tried = <<1, 2>>

\* C6: when strategies 1 and 2 both failed with code 50007, the fallback thread
\* is attempted exactly once, with at most one private thread created, and when
\* it succeeds the delivery is reported as made through the thread
C6_FallbackOnceAfterUnreachable ==
    \A h \in Slots :
        (Modal(h) /\ hs[h].e1 = "50007" /\ hs[h].e2 = "50007") =>
            /\ hs[h].tried = <<1, 2, 3>>
            /\ hs[h].threads <= 1
            /\ hs[h].via = 3 => (hs[h].mode = "thread" /\ hs[h].threads = 1)
            /\ (hs[h].via = 3 /\ hs[h].pc = "done" /\ hs[h].code = NoError)
                   => hs[h].reply = "sentThread"

\* C6 witness: both direct paths failed with 50007 and the thread delivered
C6_Witness ==
    \E h \in Slots :
        /\ Modal(h) /\ hs[h].e1 = "50007" /\ hs[h].e2 = "50007"
        /\ hs[h].via = 3 /\ hs[h].pc = "done" /\ hs[h].reply = "sentThread"

\* C7 (as claimed): when all three strategies failed, the error returned to the
\* caller carries the code of the fallback-thread attempt
C7_ThrowsLastError ==
    \A h \in Slots : AllFailed(h) => hs[h].thrown = hs[h].e3

\* C7 (amended): when all three strategies failed, the error returned to the
\* caller is the error of the second strategy
C7_ThrowsSecondError ==
    \A h \in Slots : AllFailed(h) => hs[h].thrown = hs[h].e2

\* C7 witness: all three failed, the second with a code of its own
C7_Witness ==
    \E h \in Slots :
        /\ AllFailed(h)
        /\ hs[h].e2 # hs[h].e1 /\ hs[h].e2 # hs[h].e3
        /\ hs[h].thrown = hs[h].e2

\* C8: when the operator account is a bot, the contact-operator handler attempts
\* no delivery strategy and sends nothing to the operator, and the requester is
\* told that the operator id names a bot account
C8_BotOperatorIsFatal ==
    \A h \in Slots :
        (Modal(h) /\ adminIsBot) =>
            /\ hs[h].tried = <<>> /\ hs[h].via = 0 /\ hs[h].threads = 0
            /\ hs[h].adminMsg = NoId
            /\ hs[h].pc \notin {"createAdminDm", "sendIntro", "sendEmbed"}
            /\ (hs[h].pc = "done" /\ hs[h].deferred /\ hs[h].code = NoError)
                   => hs[h].reply = "botAdmin"

\* C8 witness: a submission answered with the bot-account message
C8_Witness ==
    \E h \in Slots :
        Modal(h) /\ adminIsBot /\ hs[h].pc = "done" /\ hs[h].reply = "botAdmin"

\* C9: right after the embed of a contact-operator submission is delivered, the
\* map holds exactly one entry for the requester, the id of that embed
C9_ModalAnchorOverwritten ==
    \A h \in Slots :
        (Modal(h) /\ hs[h].adminMsg # NoId) => hs[h].anchored = {hs[h].adminMsg}

\* C9 witness: a delivery that replaced an earlier anchor of the requester
C9_Witness ==
    \E h \in Slots :
        /\ Modal(h) /\ hs[h].adminMsg # NoId
        /\ hs[h].anchorBefore # {}
        /\ hs[h].adminMsg \notin hs[h].anchorBefore

Op(h) == hs[h].kind = "op"

\* C11: a reply of the operator to a message whose footer encodes requester P
\* resolves to P: the handler calls send on P and on nobody else, once when P
\* was fetched and never otherwise
C11_ReplyRoutedToFooterUser ==
    \A h \in Slots :
        (Op(h) /\ hs[h].refFrom # NoUser) =>
            /\ hs[h].target = IdText(hs[h].refFrom)
            /\ hs[h].fwdTo \subseteq {hs[h].refFrom}
            /\ (hs[h].resolved /\ hs[h].pc \in {"done", "opDiag"})
                   => (hs[h].fwdCount = 1 /\ hs[h].fwdTo = {hs[h].refFrom})
            /\ ~hs[h].resolved => hs[h].fwdCount = 0

\* C11 witness: a reply to the envelope of one requester was forwarded to that
\* requester while a later envelope in the channel is from another requester
C11_Witness ==
    \E h \in Slots :
        /\ Op(h) /\ hs[h].pc = "done" /\ hs[h].refFrom # NoUser
        /\ hs[h].fwdTo = {hs[h].refFrom} /\ hs[h].fwdErr = NoError
        /\ \E i \in (hs[h].ref + 1)..Len(adminDm) :
              adminDm[i].from \notin {NoUser, hs[h].refFrom}

\* C12: a reply of the operator to a message that carries no sender id in an
\* embed footer produces no relay action: no forward, no message to the
\* operator's channel, no change of the anchor map
C12_NoMetadataNoRelay ==
    \A h \in Slots :
        (Op(h) /\ hs[h].ref # NoId /\ Referenced(hs[h].ref).footer = <<>>) =>
            /\ hs[h].target = <<>>
            /\ hs[h].fwdCount = 0 /\ hs[h].fwdTo = {}
            /\ hs[h].diag = "none"
            /\ Len(adminDm) = hs[h].seenDm
            /\ lastAdminPromptMsgIdByUser = hs[h].seenMap
            /\ hs[h].pc \in {"opFetchRef", "done"}

\* C12 witness: the operator replied to the plain-text line the bot sent ahead
\* of an envelope, the referenced message was fetched, and the handler returned
C12_Witness ==
    \E h \in Slots :
        /\ Op(h) /\ hs[h].pc = "done"
        /\ hs[h].ref \in 1..Len(adminDm)
        /\ adminDm[hs[h].ref].kind = "text"
        /\ \E i \in 1..Len(adminDm) : adminDm[i].kind = "embed"

\* C13: a direct message of the operator that replies to nothing is never
\* relayed: the handler returns at once, forwards to no user, and sends nothing
\* to the operator's channel (no envelope, no notice), and the map is untouched
C13_NoReferenceNoRelay ==
    \A h \in Slots :
        (Op(h) /\ hs[h].ref = NoId) =>
            /\ hs[h].pc = "done"
            /\ hs[h].fwdCount = 0 /\ hs[h].fwdTo = {} /\ hs[h].diag = "none"
            /\ hs[h].adminMsg = NoId
            /\ Len(adminDm) = hs[h].seenDm
            /\ lastAdminPromptMsgIdByUser = hs[h].seenMap

\* C13 witness: the operator wrote without replying while an envelope of a
\* requester is in the channel and the requester has an anchor
C13_Witness ==
    \E h \in Slots :
        /\ Op(h) /\ hs[h].ref = NoId /\ ~adminIsBot
        /\ \E i \in 1..Len(adminDm) : adminDm[i].kind = "embed"
        /\ lastAdminPromptMsgIdByUser # {}

\* C15: whenever the forward of an operator reply to the resolved requester
\* failed, whatever the error code, the handler made one forward attempt and
\* issued the requester-is-unreachable diagnostic to the operator's channel
C15_FailedForwardDiagnosed ==
    \A h \in Slots :
        (Op(h) /\ hs[h].pc = "done" /\ hs[h].fwdErr # NoError) =>
            /\ hs[h].fwdCount = 1
            /\ hs[h].diag # "none"

\* C14: every message the bot sent to the operator that carries the content of
\* a requester carries the id of that requester in its embed footer, in the
\* pattern getUidFromEmbedFooter reads
C14_EnvelopesCarrySenderId ==
    \A i \in 1..Len(adminDm) :
        adminDm[i].from # NoUser
            => GetUidFromEmbedFooter(adminDm[i]) = IdText(adminDm[i].from)

\* C16: a button activation dispatched less than COOLDOWN_MS after an activation
\* with the same guild, user and control reached the modal-opening logic is
\* rejected: it is answered with the cooldown message, if at all, and never
\* reaches showModal
C16_SecondWithinWindowRejected ==
    \A h \in Slots :
        (cd[h].kind = "button" /\ cd[h].since >= 0 /\ cd[h].since < CooldownMs) =>
            /\ cd[h].onCooldown /\ ~cd[h].modal
            /\ cd[h].pc \in {"cdReply", "done"}
            /\ cd[h].reply \in {"none", "cooldown"}

\* C16 witness: an activation one millisecond inside the window was answered
\* with the cooldown message
C16_Witness ==
    \E h \in Slots :
        /\ cd[h].kind = "button" /\ cd[h].since = CooldownMs - 1
        /\ cd[h].pc = "done" /\ cd[h].reply = "cooldown"

Interaction(h) == hs[h].kind \in {"button", "report", "modal"}

Report(h) == hs[h].kind = "report"

\* C18: a report submission whose title or details is empty after trimming is
\* refused: no forum thread is created for it and the submitter is not told
\* that the report was posted
C18_EmptyReportRefused ==
    \A h \in Slots :
        (Report(h) /\ hs[h].deferred /\ (hs[h].title = <<>> \/ hs[h].details = <<>>))
            => /\ ~hs[h].created
               /\ hs[h].reply # "posted"

\* C19 (as claimed): resolving a channel that is missing does not throw, and
\* the failure it yields differs from the failure for a channel of the wrong
\* type
C19_TypedDistinctFailures ==
    \A h \in Slots :
        (Report(h) /\ hs[h].entity = "missing") =>
            /\ ~hs[h].threw
            /\ hs[h].failure # ResolveChannel("text", "forum").failure

\* C19 (amended): resolving a channel that is missing or of the wrong type
\* throws, with one and the same error message for both; the handler stops and
\* no thread is created
C19_ThrowsOneErrorForBoth ==
    \A h \in Slots :
        (Report(h) /\ hs[h].entity # "none") =>
            IF hs[h].entity = "forum"
            THEN ~hs[h].threw /\ hs[h].failure = "none"
            ELSE /\ hs[h].threw
                 /\ hs[h].failure = "is not a forum channel or not found"
                 /\ ~hs[h].created
                 /\ hs[h].pc \in {"oReply", "oEdit", "done"}

\* C19 witness: the forum channel was missing, getForumChannel threw, and the
\* catch-all told the submitter
C19_Witness ==
    \E h \in Slots :
        /\ Report(h) /\ hs[h].entity = "missing" /\ hs[h].threw
        /\ hs[h].pc = "done" /\ hs[h].reply = "error"

\* C20: the answer shown to the requester of a contact-operator submission
\* matches the delivery: "delivered directly" only when a direct send
\* succeeded, "delivered in a thread" only when the fallback thread delivery
\* succeeded, and never either of them when every delivery path failed
C20_ReplyMatchesDelivery ==
    \A h \in Slots :
        (Modal(h) /\ hs[h].pc = "done") =>
            /\ hs[h].reply = "sentDm" => hs[h].via \in {1, 2}
            /\ hs[h].reply = "sentThread" => hs[h].via = 3
            /\ AllFailed(h) => hs[h].reply \notin {"sentDm", "sentThread"}

(***************************************************************************)
(* Overlapping handlers of one requester.                                  *)
(***************************************************************************)
\* the invocations in the two slots ran at the same time: the one that started
\* later started while the other was in flight
Overlapped(h, k) ==
    IF hs[h].born > hs[k].born THEN hs[h].overlaps ELSE hs[k].overlaps

\* two completed invocations that overlapped, each having sent an envelope of
\* the same requester to the operator; h is the one whose send completed last
RacedPair(h, k) ==
    /\ h # k
    /\ hs[h].pc = "done" /\ hs[k].pc = "done"
    /\ hs[h].kind \in {"modal", "dm"} /\ hs[k].kind \in {"modal", "dm"}
    /\ hs[h].user = hs[k].user
    /\ hs[h].adminMsg # NoId /\ hs[k].adminMsg # NoId
    /\ hs[h].adminMsg > hs[k].adminMsg
    /\ Overlapped(h, k)

\* every anchor is the id of an envelope that carries the content of the
\* requester it is the anchor of
AnchorsOwnEnvelopes ==
    \A p \in lastAdminPromptMsgIdByUser :
        /\ p[2] \in 1..Len(adminDm)
        /\ adminDm[p[2]].kind = "embed"
        /\ adminDm[p[2]].from = p[1]

C22_RoutingIgnoresAnchorMap ==
    \A h \in Slots :
        (Op(h) /\ hs[h].refFrom # NoUser /\ Referenced(hs[h].ref).kind = "embed") =>
            /\ UserById(hs[h].target) = {hs[h].refFrom}
            /\ hs[h].pc # "opFetchRef"
            /\ (hs[h].resolved /\ hs[h].pc \in {"done", "opDiag"})
                   => hs[h].fwdTo = {hs[h].refFrom}

\* C22 witness: after a restart emptied the map, a reply to an envelope sent
\* before the restart was forwarded to the requester the envelope is tagged
\* with
C22_Witness ==
    \E h \in Slots :
        /\ Op(h) /\ hs[h].pc = "done" /\ hs[h].refFrom # NoUser
        /\ restarts > 0
        /\ hs[h].seenMap = {}
        /\ hs[h].fwdTo = {hs[h].refFrom} /\ hs[h].fwdErr = NoError

(***************************************************************************)
(* Failures inside the MessageCreate handler.                              *)
(***************************************************************************)
Relay(h) == Dm(h) \/ Op(h)

\* C23: a failed remote call inside the MessageCreate handler never leaves the
\* handler: the handler has returned as soon as its catch has read the error
\* (also the error of a could-not-find or a cannot-DM notice to the operator
\* that failed), and no invocation ends the process, so that the next message
\* is dispatched to a handler.
C23_RelayFailuresContained ==
    \A h \in Slots :
        Relay(h) =>
            /\ hs[h].pc # "crashed"
            /\ hs[h].code # NoError => hs[h].pc = "done"
            /\ hs[h].diag = "lost" => (hs[h].pc = "done" /\ hs[h].code # NoError)

\* C23 witness: a reply of the operator was forwarded to a requester by the
\* handler dispatched after the one whose cannot-DM notice to the operator
\* failed
C23_Witness ==
    \E h \in Slots :
        /\ Op(h) /\ hs[h].pc = "done"
        /\ hs[h].fwdTo # {} /\ hs[h].fwdErr = NoError
        /\ hs[h].afterLost

(***************************************************************************)
(* The start of the process: properties.                                   *)
(***************************************************************************)
\* C24: when one of the four values the program requires is absent from the
\* environment, the process exits with a status other than 0 as the first
\* thing it does: it never calls login, never is logged in, and no panel is
\* looked for, sent or recorded.
C24_MissingConfigExits ==
    (\E n \in EnvNames : env[n] = "undefined") =>
        /\ proc.pc \in {"load", "exited"}
        /\ proc.pc = "exited" => proc.status # 0
        /\ proc.pc = "load" => proc.status = 0
        /\ ~ready
        /\ \A g \in Guilds :
              /\ panelMessageIdByGuild[g] = NoId
              /\ ens[g] = Idle
              /\ channel[g] = {}

\* C24 witness: the process has exited with status 1, the operator id being
\* the one value that is absent
C24_Witness ==
    /\ proc = [pc |-> "exited", status |-> ExitFailure]
    /\ env["ADMIN_USER_ID"] = "undefined"
    /\ \A n \in EnvNames \ {"ADMIN_USER_ID"} : env[n] = "text"

(***************************************************************************)
(* The panel manager under fair scheduling.                                *)
(***************************************************************************)
\* C25: every deletion of a panel message, also one that happens while an
\* ensurePinnedPanel call is suspended between sending (or selecting) the
\* message and recording it as tracked, is eventually followed by a state in
\* which a panel is in the channel and the tracked id is that of a message of
\* the channel.
C25_DeletedPanelRestored ==
    \A g \in Guilds :
        (deleteEvents[g] # {})
            ~> (Panels(g) # {} /\ Exists(g, panelMessageIdByGuild[g]))

SkippedNoPermission(g) ==
    /\ ens[g].pc = "getChannel"
    /\ ens'[g].pc # "getChannel"
    /\ restarts' = restarts
    /\ chanKind[g] = "text" /\ ~canSend[g]

\* C27: without the permission to send to the support channel a call of
\* ensurePinnedPanel does nothing: it ends at the permission check returning
\* null, no message is sent or pinned, the tracked id of the guild stays what
\* it was (also when the MessageDelete handler made the call), and no error is
\* raised.
C27_NoPermissionNoOp ==
    [][\A g \in Guilds :
          SkippedNoPermission(g) =>
              /\ ens'[g] = Idle
              /\ h_call'[g].outcome = "null"
              /\ channel' = channel
              /\ nextMsg' = nextMsg
              /\ panelMessageIdByGuild' = panelMessageIdByGuild
              /\ h_handled' = h_handled]_vars

\* C27 witness: the tracked panel was deleted after the bot had lost the
\* permission; the call of the MessageDelete handler returned null, and the
\* tracked id is still that of the deleted message
C27_Witness ==
    \E g \in Guilds :
        /\ h_call[g].outcome = "null"
        /\ ens[g].pc = "idle"
        /\ ~canSend[g]
        /\ panelMessageIdByGuild[g] # NoId
        /\ ~Exists(g, panelMessageIdByGuild[g])
        /\ deleteEvents[g] = {}

\* the step in which the notification of the deletion of message id of guild g
\* is delivered to the MessageDelete handler
Notified(g, id) ==
    /\ id \in deleteEvents[g]
    /\ deleteEvents'[g] = deleteEvents[g] \ {id}
    /\ restarts' = restarts

\* C28: a delete notification for a message that is not the tracked message
\* of its guild, or of a guild with no tracked message, changes nothing:
\* ensurePinnedPanel is not called, no message is sent, and the tracked ids
\* stay what they were.
C28_UntrackedDeleteIgnored ==
    [][\A g \in Guilds, id \in MsgIds :
          (Notified(g, id) /\ panelMessageIdByGuild[g] # id) =>
              /\ ens' = ens
              /\ channel' = channel
              /\ nextMsg' = nextMsg
              /\ panelMessageIdByGuild' = panelMessageIdByGuild
              /\ h_call' = h_call /\ h_handled' = h_handled]_vars

\* C28 witness: panel 1 is tracked and in the channel, the later message 2 was
\* deleted and its notification delivered, and the MessageDelete handler has
\* never called ensurePinnedPanel
C28_Witness ==
    \E g \in Guilds :
        /\ restarts = 0
        /\ panelMessageIdByGuild[g] = 1 /\ Exists(g, 1)
        /\ nextMsg[g] = 3 /\ ~Exists(g, 2)
        /\ deleteEvents[g] = {}
        /\ ens[g] = Idle
        /\ h_handled[g] = NoHandled

(***************************************************************************)
(* The start of the panel manager in several guilds.                       *)
(***************************************************************************)
\* the call ClientReady made for guild g has ended
StartupCallEnded(g) == ready /\ ens[g].pc = "idle" /\ h_call[g].outcome # "none"

C30_NoticeAttemptedReplyUnaffected ==
    \A h \in Slots :
        (Modal(h) /\ hs[h].pc = "done" /\ hs[h].deferred) =>
            /\ (AllFailed(h) \/ hs[h].code # NoError) => hs[h].noticeTries >= 1
            /\ hs[h].noticeSends <= hs[h].noticeTries
            /\ hs[h].noticed => hs[h].noticeSends >= 1
            /\ (AllFailed(h) /\ hs[h].code = NoError) => hs[h].reply = "sentDm"
            /\ (hs[h].code # NoError /\ hs[h].resp = 1 /\ hs[h].respFailed = 0) =>
                   hs[h].reply = IF hs[h].code = "50007" THEN "failed50007"
                                 ELSE "failedCode"

\* C30 witness: the three ways to reach the requester failed, the notice was
\* sent to the support channel and that send failed, and the requester got the
\* one reply of the handler
C30_Witness ==
    \E h \in Slots :
        /\ AllFailed(h) /\ hs[h].pc = "done" /\ hs[h].code = NoError
        /\ hs[h].noticeTries = 1 /\ hs[h].noticeSends = 1 /\ ~hs[h].noticed
        /\ hs[h].resp = 1 /\ hs[h].reply = "sentDm"

(***************************************************************************)
(* Replies of the operator to envelopes that are not the anchor.           *)
(***************************************************************************)
\* the operator replied to an envelope of requester P while the map held a
\* later envelope as the anchor of P
RepliedToOlderEnvelope(h) ==
    /\ Op(h)
    /\ hs[h].refFrom # NoUser
    /\ \E a \in MapGet(hs[h].seenMap, hs[h].refFrom) : hs[h].ref < a

\* C31: only the latest envelope delivered for a requester is a valid reply
\* target: a reply of the operator to an older envelope of requester P, one
\* that is no longer the anchor of P, is not forwarded to P (the handler never
\* calls send on P for it).
C31_StaleEnvelopeNotForwarded ==
    \A h \in Slots :
        RepliedToOlderEnvelope(h) => (hs[h].fwdCount = 0 /\ hs[h].fwdTo = {})

(***************************************************************************)
(* The key of the cooldown gate.                                           *)
(***************************************************************************)
\* the activation in slot h was handled less than COOLDOWN_MS after the gate
\* stamped key p[1], a key other than its own that shares two of the three
\* components with it
StampedNearby(h, p) ==
    /\ p[1] # cd[h].key
    /\ Cardinality({i \in 1..3 : p[1][i] = cd[h].key[i]}) = 2
    /\ cd[h].at - p[2] < CooldownMs

\* C32: the gate is keyed by guild, user and control together.  An activation
\* is rejected only when an activation of the same guild, user and control was
\* accepted less than COOLDOWN_MS before it; activations that differ in any of
\* the three never reject it, and an activation of the same three at or after
\* the end of the window is accepted and goes on to showModal.
C32_GateKeyedByTriple ==
    \A h \in Slots :
        cd[h].kind = "button" =>
            /\ cd[h].onCooldown => (cd[h].since >= 0 /\ cd[h].since < CooldownMs)
            /\ (cd[h].since < 0 \/ cd[h].since >= CooldownMs) =>
                  (~cd[h].onCooldown /\ cd[h].modal /\ cd[h].reply # "cooldown")

\* C32 witness: an activation was accepted and shown its modal inside the
\* window of an accepted activation that differs from it in one component only
C32_Witness ==
    \E h \in Slots :
        /\ cd[h].kind = "button" /\ cd[h].pc = "done" /\ cd[h].reply = "modal"
        /\ cd[h].since < 0
        /\ \E p \in lastInteractAt : StampedNearby(h, p)

(***************************************************************************)
(* The report form: the confirmation and the forum thread.                 *)
(***************************************************************************)
\* the handler of a report has finished without a forum thread: the forum
\* channel did not resolve, or forum.threads.create failed
ReportFailed(h) ==
    Report(h) /\ hs[h].deferred /\ hs[h].pc = "done" /\ ~hs[h].created

\* the confirmation of a report is issued, and shown, only after the forum
\* thread was created in the forum channel that resolved; it is the editReply
\* of the handler that holds that thread
ConfirmedAfterThread(h) ==
    /\ hs[h].pc = "rReply" => hs[h].created
    /\ hs[h].created => (hs[h].entity = "forum" /\ ~hs[h].threw)
    /\ hs[h].reply = "posted" => (hs[h].created /\ hs[h].pc = "done")

\* C33 as stated: the confirmation of a report is issued only after the forum
\* thread has been created and refers to that thread; when resolving the forum
\* channel or creating the thread fails, no confirmation is sent and the
\* requester receives an error response instead.
C33_FailedReportAnswered ==
    \A h \in Slots :
        Report(h) =>
            /\ ConfirmedAfterThread(h)
            /\ ReportFailed(h) => hs[h].reply = "error"

\* C33 as the code has it: the confirmation of a report is issued only after
\* the forum thread has been created; when resolving the forum channel or
\* creating the thread fails, no confirmation is sent and the handler issues an
\* error response, which the requester receives unless both response calls of
\* the catch-all (reply, then editReply) fail too: then the requester is shown
\* nothing.
C33_FailedReportAnsweredIfDeliverable ==
    \A h \in Slots :
        Report(h) =>
            /\ ConfirmedAfterThread(h)
            /\ ReportFailed(h) =>
                  /\ hs[h].reply \in {"error", "none"}
                  /\ hs[h].respFailed >= 1
                  /\ hs[h].reply = "none" <=> hs[h].respFailed >= 2

\* C33 witness: the forum channel resolved, forum.threads.create failed, and
\* the requester was shown the error response
C33_Witness ==
    \E h \in Slots :
        /\ ReportFailed(h) /\ hs[h].entity = "forum" /\ ~hs[h].threw
        /\ hs[h].reply = "error" /\ hs[h].resp = 1

(***************************************************************************)
(* The fallback thread: adding the members.                                *)
(***************************************************************************)
\* the handler is past the two thread.members.add calls and past thread.send
PastThreadSend(h) ==
    hs[h].threads > 0 /\ hs[h].pc \notin {"s3addUser", "s3addAdmin", "s3send"}

\* C34: in the fallback-thread strategy a failure of thread.members.add, for
\* the requester or for the operator, does not abort the strategy: no error is
\* thrown for it, thread.send is still called, once, on the thread created,
\* and when that send succeeds the delivery is the one by thread (mode
\* 'thread'), which the final reply reports.
C34_MemberAddsBestEffort ==
    \A h \in Slots :
        (Modal(h) /\ hs[h].addFailed # {}) =>
            /\ hs[h].threads = 1
            /\ hs[h].pc \notin {"s3addUser", "s3addAdmin", "s3send"}
                  => hs[h].threadSends = 1
            /\ (PastThreadSend(h) /\ hs[h].e3 = NoError) =>
                  /\ hs[h].via = 3 /\ hs[h].mode = "thread"
                  /\ hs[h].thrown = NoError
                  /\ hs[h].reply # "sentDm"
                  /\ (hs[h].pc = "done" /\ hs[h].respFailed = 0)
                        => hs[h].reply = "sentThread"
            /\ hs[h].e3 # NoError => hs[h].threadSends = 1

\* C34 witness: both adds failed, the envelope was sent into the thread, and
\* the requester was told that a private thread was opened
C34_Witness ==
    \E h \in Slots :
        /\ Modal(h) /\ hs[h].addFailed = {"user", "admin"}
        /\ hs[h].pc = "done" /\ hs[h].via = 3 /\ hs[h].threadSends = 1
        /\ hs[h].reply = "sentThread"

(***************************************************************************)
(* The anchor map and the envelopes.                                       *)
(***************************************************************************)
\* every anchor is the id of a message the bot sent to the operator's channel,
\* an envelope whose embed footer reads as the id of the requester
AnchorsTagged ==
    \A p \in lastAdminPromptMsgIdByUser :
        /\ p[1] \in Requesters
        /\ p[2] \in 1..Len(adminDm)
        /\ adminDm[p[2]] = BuildAdminInboxEmbed(p[1])
        /\ UserById(GetUidFromEmbedFooter(adminDm[p[2]])) = {p[1]}
        /\ \A q \in lastAdminPromptMsgIdByUser : q[1] = p[1] => q = p

\* a step that changes the map is the step in which the send of an envelope
\* succeeded: the envelope of the requester of one handler is appended to the
\* operator's channel and the anchor of that requester becomes its id
AnchorSetBySend ==
    lastAdminPromptMsgIdByUser' # lastAdminPromptMsgIdByUser =>
        \E h \in Slots :
            /\ hs[h].kind \in {"modal", "dm"}
            /\ adminDm' = Append(adminDm, BuildAdminInboxEmbed(hs[h].user))
            /\ hs'[h].adminMsg = Len(adminDm')
            /\ lastAdminPromptMsgIdByUser' =
                   MapSet(lastAdminPromptMsgIdByUser, hs[h].user, Len(adminDm'))

\* a step in which a handler catches the error of a failed remote call
\* changes neither the map nor the operator's channel
FailureKeepsAnchors ==
    \A h \in Slots :
        (hs[h].code = NoError /\ hs'[h].code # NoError) =>
            /\ lastAdminPromptMsgIdByUser' = lastAdminPromptMsgIdByUser
            /\ adminDm' = adminDm

\* C35: in every reachable state, for every participant U with an anchor, the
\* anchor is the id of an envelope the bot sent to the operator's channel whose
\* embedded sender id is U; an anchor is created or changed only in the step
\* in which the send of that envelope succeeded, and a failed delivery leaves
\* the map unchanged.
C35_AnchorsAreDeliveredEnvelopes ==
    /\ []AnchorsTagged
    /\ [][AnchorSetBySend /\ FailureKeepsAnchors]_vars

\* C35 witness: the send of a requester's envelope failed while the requester
\* and another requester had anchors, and both anchors are as they were
C35_Witness ==
    \E h \in Slots :
        /\ hs[h].kind \in {"modal", "dm"} /\ hs[h].pc = "done"
        /\ hs[h].code # NoError /\ hs[h].adminMsg = NoId
        /\ MapGet(lastAdminPromptMsgIdByUser, hs[h].user) # {}
        /\ \E p \in lastAdminPromptMsgIdByUser : p[1] # hs[h].user

(***************************************************************************)
(* Messages of bots and messages outside the DM channels.                  *)
(***************************************************************************)
\* the message the invocation in slot h handles was written by a bot, or
\* outside a DM channel
NotARelayMessage(h) ==
    hs[h].kind \in {"msg", "dm", "op"} /\ (hs[h].authorBot \/ ~hs[h].inDm)

\* C36: the MessageCreate handler acts only on direct messages of authors that
\* are not bots.  For a message a bot wrote (the bot's own envelopes, notices
\* and forwarded replies among them) or a message of a channel that is not a
\* DM channel, the handler returns before its first await: it sends no
\* envelope, forwards nothing, posts no notice, and the operator's channel and
\* the maps are as they were when it started.
C36_OnlyDirectMessagesOfUsers ==
    \A h \in Slots :
        NotARelayMessage(h) =>
            /\ hs[h].pc = "done"
            /\ hs[h].adminMsg = NoId
            /\ hs[h].fwdCount = 0 /\ hs[h].fwdTo = {} /\ hs[h].diag = "none"
            /\ hs[h].code = NoError
            /\ Len(adminDm) = hs[h].seenDm
            /\ lastAdminPromptMsgIdByUser = hs[h].seenMap

\* C36 witness: the handler was handed the bot's own message in a DM channel
\* after an envelope was sent to the operator and anchored
C36_Witness ==
    \E h \in Slots :
        /\ hs[h].kind = "msg" /\ hs[h].user = BotSelf
        /\ hs[h].authorBot /\ hs[h].inDm /\ hs[h].pc = "done"
        /\ \E p \in lastAdminPromptMsgIdByUser : adminDm[p[2]].kind = "embed"

(***************************************************************************)
(* The contact form: the outputs of the catch of the handler.              *)
(***************************************************************************)
\* the handler is in, or has been through, its catch (e): the heads-up notice
\* to the support channel, the failure DM to the requester and the failure
\* reply are issued there, one after the other
InFailureOutputs(h) ==
    \/ hs[h].pc \in {"cGetSupport", "cSend", "cUserSend", "cReply"}
    \/ hs[h].reply \in {"failed50007", "failedCode"}
    \/ (hs[h].code # NoError /\ hs[h].pc \in {"oReply", "oEdit", "done"})

\* C37: in the contact-operator handler the outputs that report a failed
\* delivery to the operator (the heads-up notice in the support channel, the
\* failure DM to the requester, the failure reply) are produced only when no
\* envelope was delivered to the operator: once the envelope was sent and the
\* anchor recorded, no later failure (that of the final editReply included)
\* produces them.
C37_FailureOutputsOnlyWithoutEnvelope ==
    \A h \in Slots :
        (Modal(h) /\ hs[h].adminMsg # NoId) => ~InFailureOutputs(h)

(***************************************************************************)
(* Where the text of a contact-form message goes.                          *)
(***************************************************************************)
\* the places the handler in slot h has posted the text of the submission to:
\* the envelope to the operator (field Message of buildAdminInboxEmbed), the
\* confirmation to the requester (field Your Message of buildUserConfirmEmbed),
\* sent by DM or into the private thread, and the notices to the support
\* channel (`**Message they sent:** ${text}`, `**Message:** ${text}`)
TextPostedTo(h) ==
    {x \in {"operatorDm", "requesterDm", "privateThread", "supportChannel"} :
        \/ x = "operatorDm" /\ hs[h].adminMsg # NoId
        \/ x = "requesterDm" /\ hs[h].via \in {1, 2}
        \/ x = "privateThread" /\ hs[h].via = 3
        \/ x = "supportChannel" /\ hs[h].noticed}

\* C38: the text of a requester's contact-operator message is sent only to the
\* operator's DM channel and to the requester's own private surfaces (their DM
\* or their private fallback thread); on no path, the failure paths included,
\* is it posted to a channel other members can read.
C38_TextStaysPrivate ==
    \A h \in Slots :
        Modal(h) => TextPostedTo(h) \subseteq {"operatorDm", "requesterDm", "privateThread"}

(***************************************************************************)
(* The window of the cooldown gate.                                        *)
(***************************************************************************)
\* C39: an activation that is rejected does not update the stored timestamp:
\* the timestamp of a key is always the time of the last accepted activation
\* of that guild, user and control.  An activation is accepted exactly when no
\* activation of its key was accepted before or COOLDOWN_MS or more have passed
\* since the last accepted one, however many were rejected in between; the
\* check and the update are one step, so that of two activations of one key
\* less than COOLDOWN_MS apart at most one is accepted, also when their
\* handlers overlap.
C39_WindowFromLastAccepted ==
    /\ lastInteractAt = h_acceptedAt
    /\ \A h \in Slots :
          cd[h].kind = "button" =>
              /\ cd[h].modal <=> (cd[h].since < 0 \/ cd[h].since >= CooldownMs)
              /\ cd[h].onCooldown <=> ~cd[h].modal
    /\ \A h \in Slots, k \in Slots :
          (/\ h # k
           /\ cd[h].kind = "button" /\ cd[k].kind = "button"
           /\ cd[h].key = cd[k].key
           /\ cd[h].at - cd[k].at < CooldownMs
           /\ cd[k].at - cd[h].at < CooldownMs)
              => ~(cd[h].modal /\ cd[k].modal)

\* C39 witness: an activation was accepted exactly COOLDOWN_MS after the last
\* accepted one of its key, and shown its modal, after an activation of the
\* same key in between, less than COOLDOWN_MS before it, was rejected
C39_Witness ==
    \E h \in Slots, k \in Slots :
        /\ h # k
        /\ cd[h].kind = "button" /\ cd[k].kind = "button"
        /\ cd[h].key = cd[k].key
        /\ cd[k].onCooldown /\ cd[k].pc = "done"
        /\ cd[k].at < cd[h].at /\ cd[h].at - cd[k].at < CooldownMs
        /\ cd[h].since = CooldownMs
        /\ cd[h].modal /\ cd[h].reply = "modal"

(***************************************************************************)
(* The intro line of a conversation by direct message.                     *)
(***************************************************************************)
\* C40: for each requester the line `New message from ... (via DM).` is sent
\* to the operator at most once per conversation, by the one direct message
\* that creates the anchor of the requester, also when several direct messages
\* of the requester are handled at the same time before an anchor is recorded:
\* no two handlers of direct messages of one requester have both sent it.
C40_IntroOncePerConversation ==
    \A h \in Slots, k \in Slots :
        (h # k /\ Dm(h) /\ Dm(k) /\ hs[h].user = hs[k].user)
            => ~(hs[h].introSent /\ hs[k].introSent)

====
